---- MODULE Spec2Model ----
(***************************************************************************)
(* TermiCode server (src/unnamed/part_003): the /api/execute handler, the  *)
(* session registry activeSessions, waitForOutput / waitForInputResult,    *)
(* cleanupSession, the expiry timer, the periodic sweep and SIGINT.        *)
(*                                                                         *)
(* Text is a sequence of characters, a character a one-character string;   *)
(* control characters carry their ASCII names.                             *)
(***************************************************************************)
EXTENDS Integers, Sequences, FiniteSets, TLC

VARIABLES
    now,             \* Date.now(), in ms
    alive,           \* the server process has not exited
    nextRun,         \* the number of requests without a sessionId, plus one
    activeSessions,  \* the Map activeSessions: session id -> session object
    session,         \* the session objects, session[r] built by run r
    sessionTimer,    \* session.timeout, the setTimeout of each session object
    containers,      \* the Docker containers, containers[r] created by run r
    channel,         \* the chunks the attached stream of each container delivered
    run,             \* the requests without a sessionId
    turn,            \* the requests with a sessionId, and their waitForOutput
    stdinWrites,     \* what was written to the stream of each container
    tempFiles,       \* the temp source files that exist, by run
    cleanupLog,      \* the callers of cleanupSession(id), in order, by id
    everRegistered,  \* the ids activeSessions.set was ever called with
    client,          \* the state of the CodeEditor component of one browser
    pure             \* a text, and what the helper functions return for it

vars == <<now, alive, nextRun, activeSessions, session, sessionTimer,
          containers, channel, run, turn, stdinWrites, tempFiles, cleanupLog,
          everRegistered, client, pure>>

(***************************************************************************)
(* Bounds of the model.                                                    *)
(***************************************************************************)
MaxRuns == 2
MaxTurns == 2
MaxChunks == 2
MaxTicks == 1
MaxLive == 2
MaxTextLen == 4
MaxPasses == 2
MaxCalls == 2

(***************************************************************************)
(* Characters.                                                             *)
(***************************************************************************)
NUL == "NUL"
SOH == "SOH"
BEL == "BEL"
VT == "VT"
FF == "FF"
TAB == "\t"
LF == "\n"
CR == "\r"
QUOTE == "\""

\* the characters of [\u0000-\u0008\u000B-\u000C\u000E-\u001F] the model carries
CtrlChars == {NUL, SOH, BEL, VT, FF}

\* \s of a JavaScript regular expression, and what String.trim() strips
SpaceChars == {" ", TAB, LF, CR, VT, FF}

UpperCase == <<"A", "B", "C", "D", "E", "F", "G", "H", "I", "J", "K", "L", "M",
               "N", "O", "P", "Q", "R", "S", "T", "U", "V", "W", "X", "Y", "Z">>

LowerCase == <<"a", "b", "c", "d", "e", "f", "g", "h", "i", "j", "k", "l", "m",
               "n", "o", "p", "q", "r", "s", "t", "u", "v", "w", "x", "y", "z">>

Digits == {"0", "1", "2", "3", "4", "5", "6", "7", "8", "9"}

Range(s) == {s[i] : i \in 1..Len(s)}

\* \w of a JavaScript regular expression
WordChars == Range(UpperCase) \cup Range(LowerCase) \cup Digits \cup {"_"}

\* the case folding of the i flag
ToLower(c) ==
    IF c \in Range(UpperCase)
    THEN LowerCase[CHOOSE i \in 1..Len(UpperCase) : UpperCase[i] = c]
    ELSE c

LowerText(s) == [i \in 1..Len(s) |-> ToLower(s[i])]

(***************************************************************************)
(* String helpers: the JavaScript String methods the server uses.          *)
(***************************************************************************)
\* s.startsWith(lit, i - 1): lit occurs in s at position i
OccursAt(s, lit, i) ==
    /\ i >= 1
    /\ i + Len(lit) - 1 <= Len(s)
    /\ \A k \in 1..Len(lit) : s[i + k - 1] = lit[k]

\* s.includes(lit)
Includes(s, lit) == \E i \in 1..(Len(s) + 1) : OccursAt(s, lit, i)

\* s.endsWith(lit)
EndsWith(s, lit) == OccursAt(s, lit, Len(s) - Len(lit) + 1)

\* s.indexOf(lit, from - 1) + 1: the first position >= from where lit
\* occurs, 0 when there is none
IndexOf(s, lit, from) ==
    LET hits == {i \in from..(Len(s) + 1) : OccursAt(s, lit, i)}
    IN  IF hits = {} THEN 0 ELSE CHOOSE i \in hits : \A k \in hits : i <= k

\* s.replace(/lit/g, rep) for a literal pattern: leftmost occurrences, one
\* pass, the replacement is not scanned again
RECURSIVE ReplaceFrom(_, _, _, _)
ReplaceFrom(s, lit, rep, from) ==
    LET i == IndexOf(s, lit, from)
    IN  IF i = 0 THEN SubSeq(s, from, Len(s))
        ELSE SubSeq(s, from, i - 1) \o rep
             \o ReplaceFrom(s, lit, rep, i + Len(lit))

ReplaceAll(s, lit, rep) == ReplaceFrom(s, lit, rep, 1)

\* s.split(sep), sep one character
RECURSIVE SplitFrom(_, _, _)
SplitFrom(s, sep, from) ==
    LET i == IndexOf(s, <<sep>>, from)
    IN  IF i = 0 THEN <<SubSeq(s, from, Len(s))>>
        ELSE <<SubSeq(s, from, i - 1)>> \o SplitFrom(s, sep, i + 1)

Split(s, sep) == SplitFrom(s, sep, 1)

\* s.trim()
TrimLeft(s) ==
    LET keep == {i \in 1..Len(s) : s[i] \notin SpaceChars}
    IN  IF keep = {} THEN <<>>
        ELSE SubSeq(s, CHOOSE i \in keep : \A k \in keep : i <= k, Len(s))

TrimRight(s) ==
    LET keep == {i \in 1..Len(s) : s[i] \notin SpaceChars}
    IN  IF keep = {} THEN <<>>
        ELSE SubSeq(s, 1, CHOOSE i \in keep : \A k \in keep : k <= i)

Trim(s) == TrimRight(TrimLeft(s))

\* chunks.map(chunk => chunk.toString()).join('')
RECURSIVE Join(_)
Join(chunks) ==
    IF chunks = <<>> THEN <<>> ELSE Head(chunks) \o Join(Tail(chunks))

(***************************************************************************)
(* The output sanitizer, as each call site writes it.                      *)
(***************************************************************************)
\* /^\u0001\u0000\u0000\u0000\u0000\u0000\u0000[\u0000-\uffff]/g : the 8-byte
\* frame header, at the start of the text only
HasFrameHeader(s) ==
    /\ Len(s) >= 8
    /\ s[1] = SOH
    /\ \A k \in 2..7 : s[k] = NUL

StripFrameHeader(s) ==
    IF HasFrameHeader(s) THEN SubSeq(s, 9, Len(s)) ELSE s

\* /[\u0000-\u0008\u000B-\u000C\u000E-\u001F]/g
StripControl(s) == SelectSeq(s, LAMBDA c : c \notin CtrlChars)

TrueText == <<"t", "r", "u", "e">>
FalseText == <<"f", "a", "l", "s", "e">>

ConfigKeys == << <<"s", "t", "r", "e", "a", "m">>,
                 <<"s", "t", "d", "i", "n">>,
                 <<"s", "t", "d", "o", "u", "t">>,
                 <<"s", "t", "d", "e", "r", "r">>,
                 <<"h", "i", "j", "a", "c", "k">>,
                 <<"d", "e", "m", "u", "x">> >>

ConfigPair(key, val) == <<QUOTE>> \o key \o <<QUOTE, ":">> \o val

\* {"stream":true,"stdin":true,"stdout":true,"stderr":true,"hijack":true,"demux":true}
DockerConfigJson ==
    <<"{">> \o ConfigPair(ConfigKeys[1], TrueText)
    \o <<",">> \o ConfigPair(ConfigKeys[2], TrueText)
    \o <<",">> \o ConfigPair(ConfigKeys[3], TrueText)
    \o <<",">> \o ConfigPair(ConfigKeys[4], TrueText)
    \o <<",">> \o ConfigPair(ConfigKeys[5], TrueText)
    \o <<",">> \o ConfigPair(ConfigKeys[6], TrueText)
    \o <<"}">>

StripConfigLiteral(s) == ReplaceAll(s, DockerConfigJson, <<>>)

\* "(stream|stdin|stdout|stderr|hijack|demux)":(true|false) at position i:
\* the position after the pair, 0 when there is none
PairEnd(s, i) ==
    LET pairs == {ConfigPair(ConfigKeys[k], v) :
                     k \in 1..Len(ConfigKeys), v \in {TrueText, FalseText}}
        hits == {p \in pairs : OccursAt(s, p, i)}
    IN  IF hits = {} THEN 0 ELSE i + Len(CHOOSE p \in hits : TRUE)

\* (,"key":bool)*\} from position i: the position after the closing brace,
\* 0 when the object does not close
RECURSIVE ConfigTailEnd(_, _)
ConfigTailEnd(s, i) ==
    IF i > Len(s) THEN 0
    ELSE IF s[i] = "}" THEN i + 1
    ELSE IF s[i] = "," /\ PairEnd(s, i + 1) # 0
         THEN ConfigTailEnd(s, PairEnd(s, i + 1))
         ELSE 0

\* \{"key":bool(,"key":bool)*\} at position i
ConfigObjectEnd(s, i) ==
    IF i <= Len(s) /\ s[i] = "{" /\ PairEnd(s, i + 1) # 0
    THEN ConfigTailEnd(s, PairEnd(s, i + 1))
    ELSE 0

RECURSIVE StripConfigFrom(_, _)
StripConfigFrom(s, from) ==
    LET hits == {i \in from..Len(s) : ConfigObjectEnd(s, i) # 0}
        i == CHOOSE i \in hits : \A k \in hits : i <= k
    IN  IF hits = {} THEN SubSeq(s, from, Len(s))
        ELSE SubSeq(s, from, i - 1) \o StripConfigFrom(s, ConfigObjectEnd(s, i))

StripConfigObjects(s) == StripConfigFrom(s, 1)

NormalizeCrLf(s) == ReplaceAll(s, <<CR, LF>>, <<LF>>)

\* the cleaning of one chunk by a data listener: header, control characters,
\* the configuration literal (no CRLF normalisation)
CleanChunk(chunkStr) ==
    StripConfigLiteral(StripControl(StripFrameHeader(chunkStr)))

\* the cleaning of a response's output by the handler
CleanResponse(output) ==
    StripConfigLiteral(StripControl(NormalizeCrLf(StripFrameHeader(output))))

cleanDockerOutput(output) ==
    StripConfigObjects(StripConfigLiteral(StripControl(NormalizeCrLf(
        StripFrameHeader(output)))))

(***************************************************************************)
(* The input-wait heuristic.                                               *)
(***************************************************************************)
\* lines.filter(line => line.trim().length > 0).pop() || ''
LastNonEmptyLine(lines) ==
    LET nonEmpty == SelectSeq(lines, LAMBDA line : Len(Trim(line)) > 0)
    IN  IF nonEmpty = <<>> THEN <<>> ELSE nonEmpty[Len(nonEmpty)]

\* a faulty variant: the pattern is shared by the calls and carries the g
\* flag, so the test after a match starts at the end of that match and fails
HasMarkPromptSticky(line, mark) ==
    /\ pure.verdicts = <<>>
    /\ \E i \in 2..Len(line) :
          /\ line[i] = mark
          /\ line[i - 1] \in WordChars \cup SpaceChars
          /\ \A j \in (i + 1)..Len(line) : line[j] \in SpaceChars

\* /[\w\s]+<mark>(?:\s*)$/.test(line), mark being ? or :
HasMarkPrompt(line, mark) ==
    \E i \in 2..Len(line) :
        /\ line[i] = mark
        /\ line[i - 1] \in WordChars \cup SpaceChars
        /\ \A j \in (i + 1)..Len(line) : line[j] \in SpaceChars

commonInputPatterns ==
    { <<"e", "n", "t", "e", "r">>, <<"i", "n", "p", "u", "t">>,
      <<"t", "y", "p", "e">>, <<"n", "a", "m", "e">>, <<"i", "d">>,
      <<"a", "g", "e">>, <<"n", "u", "m", "b", "e", "r">>,
      <<"v", "a", "l", "u", "e">>, <<"c", "h", "o", "i", "c", "e">>,
      <<"s", "e", "l", "e", "c", "t">>, <<"p", "r", "o", "v", "i", "d", "e">>,
      <<"p", "a", "s", "s", "w", "o", "r", "d">>,
      <<"u", "s", "e", "r", "n", "a", "m", "e">>, <<"e", "m", "a", "i", "l">>,
      <<"a", "d", "d", "r", "e", "s", "s">>, <<"p", "h", "o", "n", "e">>,
      <<"c", "o", "n", "t", "i", "n", "u", "e">>,
      <<"p", "r", "o", "c", "e", "e", "d">>, <<"o", "p", "t", "i", "o", "n">>,
      <<"a", "n", "s", "w", "e", "r">>,
      <<"r", "e", "s", "p", "o", "n", "s", "e">> }

\* commonInputPatterns.some(pattern => pattern.test(line)), each /word/i
HasInputKeyword(line) ==
    \E word \in commonInputPatterns : Includes(LowerText(line), word)

PromptChars == {">", "$", ":", "»"}

\* /(?:>|\$|:|») ?$/.test(line)
EndsWithPromptChar(line) ==
    \E c \in PromptChars : EndsWith(line, <<c>>) \/ EndsWith(line, <<c, " ">>)

ShortOutputLength == 100
ShortOutputLines == 3

\* the short-output test of isWaitingForInput as the source writes it
IsShortOutput(cleanOutput) ==
    /\ Len(cleanOutput) < ShortOutputLength
    /\ Len(Split(cleanOutput, LF)) <= ShortOutputLines

\* hasStalled of isWaitingForInput
HasStalled(cleanOutput, line) ==
    Len(line) > 0 /\ ~EndsWith(cleanOutput, <<LF, LF>>)

isWaitingForInput(output) ==
    IF output = <<>> THEN FALSE
    ELSE LET cleanOutput == StripFrameHeader(ReplaceAll(output, <<CR>>, <<>>))
             lastNonEmptyLine == LastNonEmptyLine(Split(cleanOutput, LF))
             hasInputKeyword == HasInputKeyword(lastNonEmptyLine)
         IN  \/ HasMarkPrompt(lastNonEmptyLine, "?")
             \/ HasMarkPrompt(lastNonEmptyLine, ":")
             \/ hasInputKeyword
             \/ EndsWithPromptChar(lastNonEmptyLine)
             \/ /\ HasStalled(cleanOutput, lastNonEmptyLine)
                /\ (IsShortOutput(cleanOutput) \/ hasInputKeyword)

PromptLengthLimit == 50

\* lastNonEmptyLine.match(/([^.!?:]+[?:])\s*$/): group 1, <<>> when no match
PromptMatch(line) ==
    LET body == TrimRight(line)
        p == Len(body)
        stops == {i \in 1..(p - 1) : body[i] \in {".", "!", "?", ":"}}
        from == IF stops = {} THEN 1
                ELSE 1 + CHOOSE i \in stops : \A k \in stops : k <= i
    IN  IF p >= 2 /\ body[p] \in {"?", ":"} /\ from <= p - 1
        THEN SubSeq(body, from, p)
        ELSE <<>>

\* a faulty variant: the prompt is the last non-empty line, trimmed
extractInputPromptTrimmed(output) ==
    IF output = <<>> THEN <<>>
    ELSE Trim(LastNonEmptyLine(Split(
             StripControl(StripFrameHeader(ReplaceAll(output, <<CR>>, <<>>))),
             LF)))

extractInputPrompt(output) ==
    IF output = <<>> THEN <<>>
    ELSE LET cleanOutput == StripControl(StripFrameHeader(
                                ReplaceAll(output, <<CR>>, <<>>)))
             lastNonEmptyLine == LastNonEmptyLine(Split(cleanOutput, LF))
         IN  IF /\ Len(lastNonEmptyLine) > PromptLengthLimit
                /\ PromptMatch(lastNonEmptyLine) # <<>>
             THEN Trim(PromptMatch(lastNonEmptyLine))
             ELSE lastNonEmptyLine

(***************************************************************************)
(* The synthetic outputs of waitForOutput.                                 *)
(***************************************************************************)
\* 'Program is running but not producing output. It may be performing a long calculation or waiting for more input.'
StillRunningMessage ==
    <<"P", "r", "o", "g", "r", "a", "m", " ", "i", "s", " ", "r", "u", "n",
      "n", "i", "n", "g", " ", "b", "u", "t", " ", "n", "o", "t", " ", "p",
      "r", "o", "d", "u", "c", "i", "n", "g", " ", "o", "u", "t", "p", "u",
      "t", ".", " ", "I", "t", " ", "m", "a", "y", " ", "b", "e", " ", "p",
      "e", "r", "f", "o", "r", "m", "i", "n", "g", " ", "a", " ", "l", "o",
      "n", "g", " ", "c", "a", "l", "c", "u", "l", "a", "t", "i", "o", "n",
      " ", "o", "r", " ", "w", "a", "i", "t", "i", "n", "g", " ", "f", "o",
      "r", " ", "m", "o", "r", "e", " ", "i", "n", "p", "u", "t", ".">>

\* 'Program completed successfully but produced no output.'
NoOutputMessage ==
    <<"P", "r", "o", "g", "r", "a", "m", " ", "c", "o", "m", "p", "l", "e",
      "t", "e", "d", " ", "s", "u", "c", "c", "e", "s", "s", "f", "u", "l",
      "l", "y", " ", "b", "u", "t", " ", "p", "r", "o", "d", "u", "c", "e",
      "d", " ", "n", "o", " ", "o", "u", "t", "p", "u", "t", ".">>

\* 'Program completed.'
CompletedMessage ==
    <<"P", "r", "o", "g", "r", "a", "m", " ", "c", "o", "m", "p", "l", "e",
      "t", "e", "d", ".">>

\* 'Unable to determine program status.'
UnknownStatusMessage ==
    <<"U", "n", "a", "b", "l", "e", " ", "t", "o", " ", "d", "e", "t", "e",
      "r", "m", "i", "n", "e", " ", "p", "r", "o", "g", "r", "a", "m", " ",
      "s", "t", "a", "t", "u", "s", ".">>

(***************************************************************************)
(* Program constants, identifiers and the inputs of the environment.       *)
(***************************************************************************)
\* setTimeout(..., 300000) and now - session.createdAt > 5 * 60 * 1000
SessionLifetime == 300000

\* the step of the clock: events happen at multiples of the session lifetime
TickLength == SessionLifetime + 1

\* the requests without a sessionId, in order of arrival
Runs == 1..MaxRuns

\* the values of uuidv4()
Ids == 1..MaxRuns

\* the requests with a sessionId, in order of arrival
Turns == 1..MaxTurns

\* req.body.sessionId is missing or falsy (undefined, null, ''): the handler
\* tests if (sessionId)
Absent == 0

\* a sessionId no uuidv4() call returned
BogusId == -1

Hi == <<"h", "i", LF>>
NamePrompt == <<"N", "a", "m", "e", "?", " ">>
OkDone == <<"o", "k", LF, LF>>
Bell == <<BEL>>

\* the chunks the attached stream may deliver
RawChunks == {Hi, NamePrompt, OkDone, Bell}

\* the second argument of the stream's 'data' event
StreamTypes == {"stdout", "stderr", "none"}

\* the 'data' events of the environment: every chunk untyped, one chunk
\* also typed
Emissions ==
    [raw : RawChunks, type : {"none"}] \cup [raw : {Hi}, type : StreamTypes]

Bob == <<"B", "o", "b">>

\* req.body.input: undefined or a text
Inputs == {[defined |-> FALSE, text |-> <<>>], [defined |-> TRUE, text |-> Bob]}

\* process exit codes the program may end with
ExitCodes == {0, 1}

\* the exit code of a container killed by container.stop()
KilledCode == 137

(***************************************************************************)
(* Responses.                                                              *)
(***************************************************************************)
Response(status, error, output, waiting, prompt, sessionId, exitCode) ==
    [status |-> status, error |-> error, output |-> output,
     waitingForInput |-> waiting, inputPrompt |-> prompt,
     sessionId |-> sessionId, exitCode |-> exitCode]

ErrorResponse(status, error) ==
    Response(status, error, <<>>, FALSE, <<>>, Absent, 0)

\* no response sent yet
NoResponse == ErrorResponse(0, "")

\* res.status(404).json({error: 'Session not found or expired. ...'})
SessionNotFound == ErrorResponse(404, "Session not found or expired")

\* res.status(400).json({error: 'Invalid session request'})
InvalidSessionRequest == ErrorResponse(400, "Invalid session request")

\* res.status(400).json({error: 'No code provided'})
NoCodeProvided == ErrorResponse(400, "No code provided")

\* res.status(400).json({error: 'Unsupported language. ...'})
UnsupportedLanguage == ErrorResponse(400, "Unsupported language")

\* res.status(500).json({error: 'Failed to save code to file'})
SaveFailed == ErrorResponse(500, "Failed to save code to file")

\* a faulty variant: the new-run catch answers with err.message alone, which is
\* empty
RunFailedUnnamed == ErrorResponse(200, "")

\* res.json({error: err.message || ..., output: ''}) of the new-run catch
RunFailed == ErrorResponse(200, "Error during container execution")

\* res.json({error: 'Error processing input: ' + error.message,
\*           waitingForInput: false})
InputFailed(error, exitCode) ==
    Response(200, error, <<>>, FALSE, <<>>, Absent, exitCode)

\* what waitForInputResult returns when waitForOutput resolved with `output`
WaitResult(output) ==
    IF output # <<>> THEN cleanDockerOutput(output) ELSE output

\* the response of an input turn whose waitForInputResult returned `result`:
\* the handler cleans it again and classifies it
InputResponse(sid, result) ==
    LET cleaned == IF result # <<>> THEN CleanResponse(result) ELSE result
        waitingForInput == isWaitingForInput(cleaned)
    IN  Response(200, "", cleaned, waitingForInput,
                 IF waitingForInput THEN extractInputPrompt(cleaned) ELSE <<>>,
                 sid, 0)

\* the response of a new run after its initial wait
RunResponse(sid, currentOutput) ==
    LET waitingForInput == isWaitingForInput(currentOutput)
    IN  Response(200, "", CleanResponse(currentOutput), waitingForInput,
                 IF waitingForInput THEN extractInputPrompt(currentOutput)
                 ELSE <<>>,
                 sid, 0)

(***************************************************************************)
(* The initial state.                                                      *)
(***************************************************************************)
IdleRun ==
    [pc |-> "none", asked |-> Absent, hasCode |-> FALSE, language |-> "",
     sid |-> Absent, currentOutput |-> <<>>, listening |-> FALSE,
     resp |-> NoResponse]

\* the request of a run slot: req.body.sessionId, !!code and language
Asked(req) ==
    [IdleRun EXCEPT !.asked = req.sessionId, !.hasCode = req.hasCode,
                    !.language = req.language]

\* no helper function has been called
IdlePure == [text |-> <<>>, cleaned |-> <<>>, verdicts |-> <<>>]

\* useState of CodeEditor: no session, no error, no request sent
IdleClient ==
    [sessionId |-> Absent, error |-> "", isExecuting |-> FALSE,
     waitingForInput |-> FALSE, request |-> "none", retrying |-> FALSE,
     settled |-> {}, handled |-> {}]

IdleTurn ==
    [pc |-> "idle", sid |-> Absent, obj |-> 0, output |-> <<>>,
     dataReceived |-> FALSE, quietArmed |-> FALSE, timeout |-> "off",
     probe |-> "off", subscribed |-> FALSE, error |-> "", exitCode |-> 0,
     input |-> <<>>, resp |-> NoResponse]

\* the server before its first request
InitServer ==
    /\ now = 0
    /\ alive = TRUE
    /\ nextRun = 1
    /\ activeSessions = <<>>
    /\ session = [r \in Runs |-> [stdoutChunks |-> <<>>, createdAt |-> 0]]
    /\ sessionTimer = [r \in Runs |-> [armed |-> FALSE, deadline |-> 0]]
    /\ containers = [r \in Runs |->
                        [status |-> "none", exitCode |-> 0, teardown |-> "none",
                         stopCalls |-> 0]]
    /\ channel = [r \in Runs |-> <<>>]
    /\ run = [r \in Runs |-> IdleRun]
    /\ turn = [t \in Turns |-> IdleTurn]
    /\ stdinWrites = [r \in Runs |-> <<>>]
    /\ tempFiles = {}
    /\ cleanupLog = [i \in Ids |-> <<>>]
    /\ everRegistered = {}

Init ==
    /\ InitServer
    /\ client = IdleClient
    /\ pure = IdlePure

\* activeSessions.has(id)
Registered == DOMAIN activeSessions

\* the session ids the responses have told the clients
Learned == {run[r].resp.sessionId : r \in Runs} \ {Absent}

\* req.body: a client names no session, a session id a response told it,
\* or an id of its own making
Requests ==
    [sessionId : Learned \cup {Absent, BogusId}, hasCode : BOOLEAN,
     language : {"python", "ruby"}, input : Inputs]


(***************************************************************************)
(* The dispatch of POST /api/execute, up to its first await.               *)
(***************************************************************************)
\* a faulty variant: an unknown sessionId falls through to the new-run path
RouteFallsThrough(req, registry) ==
    IF req.sessionId # Absent /\ req.sessionId \in registry
    THEN IF req.input.defined THEN "input" ELSE "invalidSession"
    ELSE IF ~req.hasCode THEN "noCode"
    ELSE IF req.language # "python" THEN "unsupportedLanguage"
    ELSE "run"

\* a faulty variant: the language of a new run is not looked at
RouteAnyLanguage(req, registry) ==
    IF req.sessionId # Absent
    THEN IF req.sessionId \notin registry THEN "notFound"
         ELSE IF req.input.defined THEN "input"
         ELSE "invalidSession"
    ELSE IF ~req.hasCode THEN "noCode"
    ELSE "run"

Route(req, registry) ==
    IF req.sessionId # Absent
    THEN IF req.sessionId \notin registry THEN "notFound"
         ELSE IF req.input.defined THEN "input"
         ELSE "invalidSession"
    ELSE IF ~req.hasCode THEN "noCode"
    ELSE IF req.language # "python" THEN "unsupportedLanguage"
    ELSE "run"

\* the slot of the next request with a sessionId
NextTurn(t) ==
    turn[t].pc = "idle" /\ \A u \in Turns : u < t => turn[u].pc # "idle"

(***************************************************************************)
(* cleanupSession(id) for every id of `ids`, called by `caller`;           *)
(* `throwers` are the ids whose container.stop() throws synchronously.     *)
(***************************************************************************)
\* the session objects activeSessions.get finds for the ids
Found(ids) == {activeSessions[i] : i \in ids \cap Registered}

\* container.stop() is called; on a synchronous throw the catch block calls
\* container.remove({force: true})
Torn(c, threw) ==
    [c EXCEPT !.teardown = IF threw THEN "fallback" ELSE "stopping",
              !.stopCalls = @ + 1]

\* a faulty variant: the entry is deleted, the container is left alone
ContainersAfterCleanupSkipped(ids, throwers) == containers

ContainersAfterCleanup(ids, throwers) ==
    [r \in Runs |->
        IF r \in Found(ids) THEN Torn(containers[r], r \in Found(throwers))
        ELSE containers[r]]

\* a faulty variant: no activeSessions.delete
SessionsAfterCleanupKept(ids, throwers) == activeSessions

\* a faulty variant: a throwing container.stop() skips activeSessions.delete
SessionsAfterCleanupUncaught(ids, throwers) ==
    [i \in Registered \ (ids \ throwers) |-> activeSessions[i]]

\* activeSessions.delete(sessionId)
SessionsAfterCleanup(ids, throwers) ==
    [i \in Registered \ ids |-> activeSessions[i]]

\* clearTimeout(session.timeout)
TimersAfterCleanup(ids) ==
    [r \in Runs |->
        IF r \in Found(ids) THEN [sessionTimer[r] EXCEPT !.armed = FALSE]
        ELSE sessionTimer[r]]

cleanupSessions(ids, throwers, caller) ==
    /\ containers' = ContainersAfterCleanup(ids, throwers)
    /\ activeSessions' = SessionsAfterCleanup(ids, throwers)
    /\ cleanupLog' = [i \in Ids |->
                         IF i \in ids THEN Append(cleanupLog[i], caller)
                         ELSE cleanupLog[i]]

cleanupSession(sessionId, threw, caller) ==
    cleanupSessions({sessionId}, IF threw THEN {sessionId} ELSE {}, caller)

(***************************************************************************)
(* Requests answered before the first await.                               *)
(***************************************************************************)
ExecuteSessionNotFound(t, req) ==
    /\ alive
    /\ NextTurn(t)
    /\ Route(req, Registered) = "notFound"
    /\ turn' = [turn EXCEPT ![t] =
                   [IdleTurn EXCEPT !.pc = "done", !.sid = req.sessionId,
                                    !.resp = SessionNotFound]]
    /\ UNCHANGED <<now, alive, nextRun, activeSessions, session, sessionTimer,
                   containers, channel, run, stdinWrites, tempFiles,
                   cleanupLog, everRegistered, client, pure>>

ExecuteInvalidSession(t, req) ==
    /\ alive
    /\ NextTurn(t)
    /\ Route(req, Registered) = "invalidSession"
    /\ turn' = [turn EXCEPT ![t] =
                   [IdleTurn EXCEPT !.pc = "done", !.sid = req.sessionId,
                                    !.resp = InvalidSessionRequest]]
    /\ UNCHANGED <<now, alive, nextRun, activeSessions, session, sessionTimer,
                   containers, channel, run, stdinWrites, tempFiles,
                   cleanupLog, everRegistered, client, pure>>

ExecuteInvalid(r, req) ==
    /\ alive
    /\ r = nextRun
    /\ Route(req, Registered) \in {"noCode", "unsupportedLanguage"}
    /\ run' = [run EXCEPT ![r] =
                  [Asked(req) EXCEPT !.pc = "done",
                                     !.resp = IF Route(req, Registered) = "noCode"
                                              THEN NoCodeProvided
                                              ELSE UnsupportedLanguage]]
    /\ nextRun' = nextRun + 1
    /\ UNCHANGED <<now, alive, activeSessions, session, sessionTimer,
                   containers, channel, turn, stdinWrites, tempFiles,
                   cleanupLog, everRegistered, client, pure>>

\* fs.writeFileSync(filePath, code) throws
ExecuteSaveFails(r, req) ==
    /\ alive
    /\ r = nextRun
    /\ Route(req, Registered) = "run"
    /\ run' = [run EXCEPT ![r] =
                  [Asked(req) EXCEPT !.pc = "done", !.resp = SaveFailed]]
    /\ nextRun' = nextRun + 1
    /\ UNCHANGED <<now, alive, activeSessions, session, sessionTimer,
                   containers, channel, turn, stdinWrites, tempFiles,
                   cleanupLog, everRegistered, client, pure>>

(***************************************************************************)
(* A new run: write the file, draw the session id, create, start and       *)
(* attach the container, register the session, wait one second, respond.   *)
(***************************************************************************)
\* a faulty variant: uuidv4() returns the same id again
FreshIdRepeated == CHOOSE i \in Ids : \A j \in Ids : i <= j

\* uuidv4(): an id not returned before
FreshId == nextRun

\* the new runs that have not responded yet
InFlight == {r \in Runs : run[r].pc \notin {"none", "done"}}

ExecuteRun(r, req) ==
    /\ alive
    /\ r = nextRun
    /\ Route(req, Registered) = "run"
    /\ Cardinality(InFlight) + Cardinality(Registered) < MaxLive
    /\ tempFiles' = tempFiles \cup {r}
    /\ run' = [run EXCEPT ![r] =
                  [Asked(req) EXCEPT !.pc = "creating", !.sid = FreshId]]
    /\ nextRun' = nextRun + 1
    /\ UNCHANGED <<now, alive, activeSessions, session, sessionTimer,
                   containers, channel, turn, stdinWrites, cleanupLog,
                   everRegistered, client, pure>>

\* catch (err) of the new-run path: cleanupSession(newSessionId),
\* fs.unlinkSync(filePath) (its failure is logged), the error response
RunCatch(r, threw, unlinked) ==
    /\ cleanupSession(run[r].sid, threw, "run")
    /\ sessionTimer' = TimersAfterCleanup({run[r].sid})
    /\ tempFiles' = IF unlinked THEN tempFiles \ {r} ELSE tempFiles
    /\ run' = [run EXCEPT ![r].pc = "done", ![r].resp = RunFailed]
    /\ UNCHANGED <<now, alive, nextRun, session, channel, turn, stdinWrites,
                   everRegistered, client, pure>>

\* await docker.createContainer(...)
CreateContainerSettles(r, ok) ==
    /\ alive
    /\ run[r].pc = "creating"
    /\ IF ok
       THEN /\ containers' = [containers EXCEPT ![r].status = "created"]
            /\ run' = [run EXCEPT ![r].pc = "starting"]
            /\ UNCHANGED <<now, alive, nextRun, activeSessions, session,
                           sessionTimer, channel, turn, stdinWrites,
                           tempFiles, cleanupLog, everRegistered, client,
                           pure>>
       ELSE \E threw, unlinked \in BOOLEAN : RunCatch(r, threw, unlinked)

\* await container.start()
StartSettles(r, ok) ==
    /\ alive
    /\ run[r].pc = "starting"
    /\ IF ok
       THEN /\ containers' = [containers EXCEPT ![r].status = "running"]
            /\ run' = [run EXCEPT ![r].pc = "attaching"]
            /\ UNCHANGED <<now, alive, nextRun, activeSessions, session,
                           sessionTimer, channel, turn, stdinWrites,
                           tempFiles, cleanupLog, everRegistered, client,
                           pure>>
       ELSE \E threw, unlinked \in BOOLEAN : RunCatch(r, threw, unlinked)

\* activeSessions.set(newSessionId, {container, stream, stdoutChunks, ...})
SessionsAfterSet(sid, r) ==
    [i \in Registered \cup {sid} |-> IF i = sid THEN r ELSE activeSessions[i]]

\* await container.attach(...); then setTimeout, activeSessions.set and
\* stream.on('data'), up to the await of the one-second timer
AttachSettles(r, ok) ==
    /\ alive
    /\ run[r].pc = "attaching"
    /\ IF ok
       THEN /\ sessionTimer' = [sessionTimer EXCEPT ![r] =
                                   [armed |-> TRUE,
                                    deadline |-> now + SessionLifetime]]
            /\ session' = [session EXCEPT ![r] =
                              [stdoutChunks |-> <<>>, createdAt |-> now]]
            /\ activeSessions' = SessionsAfterSet(run[r].sid, r)
            /\ everRegistered' = everRegistered \cup {run[r].sid}
            /\ run' = [run EXCEPT ![r].pc = "initialWait",
                                  ![r].listening = TRUE]
            /\ UNCHANGED <<now, alive, nextRun, containers, channel, turn,
                           stdinWrites, tempFiles, cleanupLog, client, pure>>
       ELSE \E threw, unlinked \in BOOLEAN : RunCatch(r, threw, unlinked)

\* the one-second timer of the new run fires: classify and respond
RunResponds(r) ==
    /\ alive
    /\ run[r].pc = "initialWait"
    /\ run' = [run EXCEPT ![r].pc = "done",
                          ![r].resp = RunResponse(run[r].sid,
                                                  run[r].currentOutput)]
    /\ UNCHANGED <<now, alive, nextRun, activeSessions, session, sessionTimer,
                   containers, channel, turn, stdinWrites, tempFiles,
                   cleanupLog, everRegistered, client, pure>>

(***************************************************************************)
(* An input turn: write the input, then waitForInputResult, which calls    *)
(* waitForOutput(session, 20000).                                          *)
(***************************************************************************)
\* cleanup() of waitForOutput: the absolute timeout and the quiet timer are
\* cleared, both listeners removed; the 5000 ms probe timer is not cleared
Cleaned(w) ==
    [w EXCEPT !.quietArmed = FALSE,
              !.timeout = IF @ = "armed" THEN "off" ELSE @,
              !.subscribed = FALSE]

\* cleanup(); resolve({output}): the awaiting handler continues and sends
\* its response; a promise that has settled ignores the resolve
Resolved(w, output) ==
    IF w.pc = "waiting"
    THEN [Cleaned(w) EXCEPT !.pc = "done",
                            !.resp = InputResponse(w.sid, WaitResult(output))]
    ELSE Cleaned(w)

\* cleanup(); reject(error): waitForInputResult catches it and awaits
\* container.logs()
Rejected(w, error, exitCode) ==
    IF w.pc = "waiting"
    THEN [Cleaned(w) EXCEPT !.pc = "logs", !.error = error,
                            !.exitCode = exitCode]
    ELSE Cleaned(w)

\* session.stdoutChunks.map(chunk => chunk.toString()).join('')
ExistingOutput(r) == Join(session[r].stdoutChunks)

\* a faulty variant: an input turn starts the history of its session anew
SessionAfterInputCleared(sid) ==
    [session EXCEPT ![activeSessions[sid]].stdoutChunks = <<>>]

\* a faulty variant: an input turn restarts the lifetime of its session
SessionAfterInputRefreshed(sid) ==
    [session EXCEPT ![activeSessions[sid]].createdAt = now]

\* the session objects after the input branch, which writes to
\* session.stream and reads session.stdoutChunks only
SessionAfterInput(sid) == session

\* a faulty variant: the input is written as it came
InputLineRaw(input) == input

\* input + '\n'
InputLine(input) == input \o <<LF>>

ExecuteInput(t, req) ==
    /\ alive
    /\ NextTurn(t)
    /\ Route(req, Registered) = "input"
    /\ stdinWrites' = [stdinWrites EXCEPT ![activeSessions[req.sessionId]] =
                          Append(@, InputLine(req.input.text))]
    /\ turn' = [turn EXCEPT ![t] =
                   [IdleTurn EXCEPT !.pc = "waiting", !.sid = req.sessionId,
                                    !.obj = activeSessions[req.sessionId],
                                    !.input = req.input.text,
                                    !.timeout = "armed", !.probe = "armed",
                                    !.subscribed = TRUE]]
    /\ session' = SessionAfterInput(req.sessionId)
    /\ UNCHANGED <<now, alive, nextRun, activeSessions, sessionTimer,
                   containers, channel, run, tempFiles, cleanupLog,
                   everRegistered, client, pure>>

\* a faulty variant: the quiet timer is set before the heuristic is looked at
DataHandledArmsFirst(w, chunkStr) ==
    LET appended == w.output \o CleanChunk(chunkStr)
        output == IF appended # <<>> THEN cleanDockerOutput(appended)
                  ELSE appended
        seen == [w EXCEPT !.dataReceived = TRUE, !.output = output]
    IN  [IF isWaitingForInput(output) THEN Resolved(seen, output) ELSE seen
            EXCEPT !.quietArmed = TRUE]

\* dataHandler of waitForOutput on one chunk
DataHandled(w, chunkStr) ==
    LET appended == w.output \o CleanChunk(chunkStr)
        output == IF appended # <<>> THEN cleanDockerOutput(appended)
                  ELSE appended
        seen == [w EXCEPT !.dataReceived = TRUE, !.output = output]
    IN  IF isWaitingForInput(output)
        THEN Resolved(seen, output)
        ELSE [seen EXCEPT !.quietArmed = TRUE]

\* the waitForOutput subscriptions on the stream of container r
Waiters(r) == {t \in Turns : turn[t].subscribed /\ turn[t].obj = r}

\* what the data listener of the new run pushes to stdoutChunks for a chunk
RunListenerPush(chunkStr, type) ==
    IF type = "stderr" THEN <<>> ELSE <<CleanChunk(chunkStr)>>

\* what the dataHandlers of n subscribed waitForOutput push to stdoutChunks
WaiterPush(chunkStr, n) == [k \in 1..n |-> CleanChunk(chunkStr)]

\* the number of chunks the streams of containers 1..r have delivered
RECURSIVE Delivered(_)
Delivered(r) == IF r = 0 THEN 0 ELSE Len(channel[r]) + Delivered(r - 1)

\* the stream emits 'data': the listener of the new run, then the
\* dataHandler of every subscribed waitForOutput
ChannelData(r, chunkStr, type) ==
    /\ alive
    /\ run[r].listening
    /\ containers[r].status = "running"
    /\ Delivered(MaxRuns) < MaxChunks
    /\ channel' = [channel EXCEPT ![r] =
                      Append(@, [raw |-> chunkStr, stderr |-> type = "stderr"])]
    /\ session' = [session EXCEPT ![r].stdoutChunks =
                      @ \o RunListenerPush(chunkStr, type)
                        \o WaiterPush(chunkStr, Cardinality(Waiters(r)))]
    /\ run' = [run EXCEPT ![r].currentOutput =
                  IF type = "stderr" THEN @ ELSE @ \o CleanChunk(chunkStr)]
    /\ turn' = [t \in Turns |->
                   IF t \in Waiters(r) THEN DataHandled(turn[t], chunkStr)
                   ELSE turn[t]]
    /\ UNCHANGED <<now, alive, nextRun, activeSessions, sessionTimer,
                   containers, stdinWrites, tempFiles, cleanupLog,
                   everRegistered, client, pure>>

\* the quiet timer fires, 500 ms after the last chunk; `late` is
\* Date.now() - lastDataTime > 2000
WaitQuietTimer(t, late) ==
    /\ alive
    /\ turn[t].quietArmed
    /\ turn' = [turn EXCEPT ![t] =
                   IF @.output # <<>> \/ late THEN Resolved(@, @.output)
                   ELSE [@ EXCEPT !.quietArmed = FALSE]]
    /\ UNCHANGED <<now, alive, nextRun, activeSessions, session, sessionTimer,
                   containers, channel, run, stdinWrites, tempFiles,
                   cleanupLog, everRegistered, client, pure>>

\* the 5000 ms timer fires: without data so far it calls container.inspect()
WaitProbeTimer(t) ==
    /\ alive
    /\ turn[t].probe = "armed"
    /\ turn' = [turn EXCEPT ![t].probe =
                   IF turn[t].dataReceived THEN "off" ELSE "inspecting"]
    /\ UNCHANGED <<now, alive, nextRun, activeSessions, session, sessionTimer,
                   containers, channel, run, stdinWrites, tempFiles,
                   cleanupLog, everRegistered, client, pure>>

\* container.inspect() and container.logs() reject for a removed container
CanAnswer(r, ok) == ok => containers[r].status # "removed"

\* the callback of the probe's inspect()
ProbeInspected(w, ok) ==
    LET c == containers[w.obj]
        prior == ExistingOutput(w.obj)
    IN  IF ~ok THEN Resolved(w, UnknownStatusMessage)
        ELSE IF c.status # "running" /\ c.exitCode = 0
        THEN Resolved(w, IF prior # <<>> THEN prior ELSE CompletedMessage)
        ELSE IF isWaitingForInput(prior) THEN Resolved(w, prior)
        ELSE w

\* the inspect() of the 5000 ms probe settles
WaitProbeInspect(t, ok) ==
    /\ alive
    /\ turn[t].probe = "inspecting"
    /\ CanAnswer(turn[t].obj, ok)
    /\ turn' = [turn EXCEPT ![t] =
                   ProbeInspected([@ EXCEPT !.probe = "off"], ok)]
    /\ UNCHANGED <<now, alive, nextRun, activeSessions, session, sessionTimer,
                   containers, channel, run, stdinWrites, tempFiles,
                   cleanupLog, everRegistered, client, pure>>

\* the absolute timeout fires (after the 5000 ms timer): existing output is
\* returned, else container.inspect() is called
WaitTimeout(t) ==
    /\ alive
    /\ turn[t].timeout = "armed"
    /\ turn[t].probe # "armed"
    /\ turn' = [turn EXCEPT ![t] =
                   IF ExistingOutput(@.obj) # <<>>
                   THEN Resolved(@, ExistingOutput(@.obj))
                   ELSE [@ EXCEPT !.timeout = "inspecting"]]
    /\ UNCHANGED <<now, alive, nextRun, activeSessions, session, sessionTimer,
                   containers, channel, run, stdinWrites, tempFiles,
                   cleanupLog, everRegistered, client, pure>>

\* a faulty variant: info.State.Running is not looked at, so a program that
\* still runs at the timeout counts as one that has ended
TimeoutInspectedFatal(w, ok) ==
    LET c == containers[w.obj]
    IN  IF ~ok
        THEN Rejected(w, "Execution timed out and failed to check program status", 0)
        ELSE IF c.status # "running" /\ c.exitCode = 0
        THEN Resolved(w, NoOutputMessage)
        ELSE Rejected(w, "Program exited with code", c.exitCode)

\* a faulty variant: a program that still runs at the timeout is waited for,
\* as the 5000 ms probe does
TimeoutInspectedWaits(w, ok) ==
    LET c == containers[w.obj]
    IN  IF ~ok
        THEN Rejected(w, "Execution timed out and failed to check program status", 0)
        ELSE IF c.status = "running" THEN w
        ELSE IF c.exitCode = 0 THEN Resolved(w, NoOutputMessage)
        ELSE Rejected(w, "Program exited with code", c.exitCode)

\* the callback of the timeout's inspect()
TimeoutInspected(w, ok) ==
    LET c == containers[w.obj]
    IN  IF ~ok
        THEN Rejected(w, "Execution timed out and failed to check program status", 0)
        ELSE IF c.status = "running" THEN Resolved(w, StillRunningMessage)
        ELSE IF c.exitCode = 0 THEN Resolved(w, NoOutputMessage)
        ELSE Rejected(w, "Program exited with code", c.exitCode)

\* the inspect() of the absolute timeout settles
WaitTimeoutInspect(t, ok) ==
    /\ alive
    /\ turn[t].timeout = "inspecting"
    /\ CanAnswer(turn[t].obj, ok)
    /\ turn' = [turn EXCEPT ![t] =
                   TimeoutInspected([@ EXCEPT !.timeout = "off"], ok)]
    /\ UNCHANGED <<now, alive, nextRun, activeSessions, session, sessionTimer,
                   containers, channel, run, stdinWrites, tempFiles,
                   cleanupLog, everRegistered, client, pure>>

\* the stream emits 'error': errorHandler of every subscribed waitForOutput
StreamError(r) ==
    /\ alive
    /\ run[r].listening
    /\ Waiters(r) # {}
    /\ turn' = [t \in Turns |->
                   IF t \in Waiters(r) THEN Rejected(turn[t], "Stream error", 0)
                   ELSE turn[t]]
    /\ UNCHANGED <<now, alive, nextRun, activeSessions, session, sessionTimer,
                   containers, channel, run, stdinWrites, tempFiles,
                   cleanupLog, everRegistered, client, pure>>

\* the text of container.logs(): the chunks of the last 30 seconds
RawLogs(r, recent) ==
    IF recent THEN Join([k \in 1..Len(channel[r]) |-> channel[r][k].raw])
    ELSE <<>>

\* await session.container.logs(...) settles: its output is returned as the
\* result of the wait, or the original error is thrown to the handler, whose
\* catch calls cleanupSession(sessionId) and responds with the error
LogsSettle(t, ok, recent, threw) ==
    LET w == turn[t]
    IN  /\ alive
        /\ w.pc = "logs"
        /\ CanAnswer(w.obj, ok)
        /\ IF ok
           THEN /\ turn' = [turn EXCEPT ![t].pc = "done",
                                        ![t].resp = InputResponse(w.sid,
                                            cleanDockerOutput(RawLogs(w.obj, recent)))]
                /\ UNCHANGED <<activeSessions, sessionTimer, containers,
                               cleanupLog, pure>>
           ELSE /\ cleanupSession(w.sid, threw, "input")
                /\ sessionTimer' = TimersAfterCleanup({w.sid})
                /\ turn' = [turn EXCEPT ![t].pc = "done",
                                        ![t].resp = InputFailed(w.error,
                                                                w.exitCode)]
        /\ UNCHANGED <<now, alive, nextRun, session, channel, run,
                       stdinWrites, tempFiles, everRegistered, client, pure>>

(***************************************************************************)
(* The sandbox and its teardown.                                           *)
(***************************************************************************)
\* the program ends by itself
ContainerExits(r, code) ==
    /\ alive
    /\ containers[r].status = "running"
    /\ containers[r].teardown = "none"
    /\ containers' = [containers EXCEPT ![r].status = "exited",
                                        ![r].exitCode = code]
    /\ UNCHANGED <<now, alive, nextRun, activeSessions, session, sessionTimer,
                   channel, run, turn, stdinWrites, tempFiles, cleanupLog,
                   everRegistered, client, pure>>

\* container.stop() of cleanupSession settles: .then calls
\* container.remove({force: true}), .catch calls it as the fallback
StopSettles(r, ok) ==
    /\ alive
    /\ containers[r].teardown = "stopping"
    /\ containers' = [containers EXCEPT ![r] =
          IF ok
          THEN [@ EXCEPT !.status = IF @ = "running" THEN "exited" ELSE @,
                         !.exitCode = IF containers[r].status = "running"
                                      THEN KilledCode ELSE @,
                         !.teardown = "removing"]
          ELSE [@ EXCEPT !.teardown = "fallback"]]
    /\ UNCHANGED <<now, alive, nextRun, activeSessions, session, sessionTimer,
                   channel, run, turn, stdinWrites, tempFiles, cleanupLog,
                   everRegistered, client, pure>>

\* container.remove({force: true}) settles: a rejection of the first remove
\* reaches .catch, which calls the fallback remove; a rejection of the
\* fallback is swallowed
RemoveSettles(r, ok) ==
    /\ alive
    /\ containers[r].teardown \in {"removing", "fallback"}
    /\ containers' = [containers EXCEPT ![r] =
          IF ok THEN [@ EXCEPT !.status = "removed", !.teardown = "done"]
          ELSE IF @.teardown = "removing" THEN [@ EXCEPT !.teardown = "fallback"]
          ELSE [@ EXCEPT !.teardown = "failed"]]
    /\ UNCHANGED <<now, alive, nextRun, activeSessions, session, sessionTimer,
                   channel, run, turn, stdinWrites, tempFiles, cleanupLog,
                   everRegistered, client, pure>>

(***************************************************************************)
(* Expiry: the timer of each session, the periodic sweep, SIGINT.          *)
(***************************************************************************)
\* time passes: the one-second timer of a new run has fired by then, the
\* other timers may run late
Tick ==
    /\ alive
    /\ Registered # {}
    /\ \A r \in Runs : run[r].pc # "initialWait"
    /\ now < MaxTicks * TickLength
    /\ now' = now + TickLength
    /\ UNCHANGED <<alive, nextRun, activeSessions, session, sessionTimer,
                   containers, channel, run, turn, stdinWrites, tempFiles,
                   cleanupLog, everRegistered, client, pure>>

\* the setTimeout callback of a session: cleanupSession(newSessionId)
ExpiryTimer(r, threw) ==
    /\ alive
    /\ sessionTimer[r].armed
    /\ now >= sessionTimer[r].deadline
    /\ cleanupSession(run[r].sid, threw, "timer")
    /\ sessionTimer' = [TimersAfterCleanup({run[r].sid}) EXCEPT
                           ![r].armed = FALSE]
    /\ UNCHANGED <<now, alive, nextRun, session, channel, run, turn,
                   stdinWrites, tempFiles, everRegistered, client, pure>>

\* the sessions the sweep finds older than the lifetime
Expired ==
    {i \in Registered : now - session[activeSessions[i]].createdAt > SessionLifetime}

\* the setInterval callback, every 60 * 1000 ms
Sweep(throwers) ==
    /\ alive
    /\ throwers \subseteq Expired
    /\ cleanupSessions(Expired, throwers, "sweep")
    /\ sessionTimer' = TimersAfterCleanup(Expired)
    /\ UNCHANGED <<now, alive, nextRun, session, channel, run, turn,
                   stdinWrites, tempFiles, everRegistered, client, pure>>

\* a faulty variant: the deletion of the visited entry ends the iteration
ShutdownSessionsFirst ==
    {i \in Registered : \A j \in Registered : i <= j}

\* for (const [sessionId] of activeSessions.entries()): a Map iterator visits
\* every entry, also when the visited one is deleted
ShutdownSessions == Registered

\* process.on('SIGINT'): cleanupSession for every entry, then process.exit(0)
Sigint(throwers) ==
    /\ alive
    /\ throwers \subseteq Registered
    /\ cleanupSessions(ShutdownSessions, throwers, "sigint")
    /\ sessionTimer' = TimersAfterCleanup(ShutdownSessions)
    /\ alive' = FALSE
    /\ UNCHANGED <<now, nextRun, session, channel, run, turn, stdinWrites,
                   tempFiles, everRegistered, client, pure>>

(***************************************************************************)
(* The browser: the CodeEditor component (src/client/src/components/       *)
(* CodeEditor.tsx) of one user, who sends the requests of this server.     *)
(* Its state is sessionId, error, isExecuting and waitingForInput; request *)
(* is the handler that awaits a response, settled and handled are the      *)
(* requests whose handler has run to its end.                              *)
(***************************************************************************)
\* response.error.includes('Session not found') ||
\* response.error.includes('expired')
NamesLostSession(error) == error = SessionNotFound.error

\* response.error.includes('timed out')
NamesTimeout(error) ==
    error = "Execution timed out and failed to check program status"

\* handleRunCode up to its await, on a click of the Run button, which is
\* disabled={isExecuting}: the state is reset and the request is sent
handleRunCode ==
    /\ ~client.isExecuting
    /\ client' = [client EXCEPT !.isExecuting = TRUE,
                                !.waitingForInput = FALSE,
                                !.sessionId = Absent,
                                !.error = "",
                                !.request = "run"]
    /\ UNCHANGED <<now, alive, nextRun, activeSessions, session, sessionTimer,
                   containers, channel, run, turn, stdinWrites, tempFiles,
                   cleanupLog, everRegistered, pure>>

\* handleInput up to its await, called by the Terminal with a line: nothing
\* without a sessionId, else the request is sent
handleInput ==
    /\ client.sessionId # Absent
    /\ client' = [client EXCEPT !.waitingForInput = FALSE,
                                !.isExecuting = TRUE,
                                !.request = "input"]
    /\ UNCHANGED <<now, alive, nextRun, activeSessions, session, sessionTimer,
                   containers, channel, run, turn, stdinWrites, tempFiles,
                   cleanupLog, everRegistered, pure>>

\* the rest of handleRunCode once the response of its request is there:
\* setSessionId(response.sessionId || null) when the program waits for
\* input, the null of the start of handleRunCode otherwise
handleRunCodeSettles(r) ==
    /\ run[r].pc = "done"
    /\ r \notin client.settled
    /\ client' = [client EXCEPT
          !.sessionId = IF run[r].resp.error = "" /\ run[r].resp.waitingForInput
                        THEN run[r].resp.sessionId ELSE Absent,
          !.error = run[r].resp.error,
          !.isExecuting =
              IF run[r].resp.error = "" /\ run[r].resp.waitingForInput
              THEN @ ELSE FALSE,
          !.waitingForInput =
              IF run[r].resp.error = "" /\ run[r].resp.waitingForInput
              THEN TRUE ELSE @,
          !.request = "none",
          !.settled = @ \cup {r}]
    /\ UNCHANGED <<now, alive, nextRun, activeSessions, session, sessionTimer,
                   containers, channel, run, turn, stdinWrites, tempFiles,
                   cleanupLog, everRegistered, pure>>

\* the requests of handleInput that are under way: they carry the
\* sessionId of the component and an input
Sent(t) ==
    /\ t \notin client.handled
    /\ client.sessionId # Absent
    /\ turn[t].sid = client.sessionId
    /\ turn[t].pc # "idle"
    /\ turn[t].resp # InvalidSessionRequest

\* sessionId after handleInput has seen the response: null for a lost
\* session, for a timeout the user does not retry, and for a program that
\* does not wait for input; kept for any other error
SessionIdAfterInput(resp, retry) ==
    IF resp.error # ""
    THEN IF NamesLostSession(resp.error) THEN Absent
         ELSE IF NamesTimeout(resp.error) /\ ~retry THEN Absent
         ELSE client.sessionId
    ELSE IF resp.waitingForInput THEN client.sessionId ELSE Absent

\* the rest of handleInput once the response won the race against the
\* 25000 ms timer; `retry` is the answer to window.confirm. isExecuting is
\* left as it is for a lost session and for a program that waits for input,
\* true for a timeout the user retries, false otherwise
handleInputSettles(t, retry) ==
    /\ Sent(t)
    /\ ~client.retrying
    /\ turn[t].pc = "done"
    /\ client' = [client EXCEPT
          !.sessionId = SessionIdAfterInput(turn[t].resp, retry),
          !.error = turn[t].resp.error,
          !.isExecuting =
              IF turn[t].resp.error # ""
              THEN IF NamesLostSession(turn[t].resp.error) THEN @
                   ELSE IF NamesTimeout(turn[t].resp.error) THEN retry
                   ELSE FALSE
              ELSE IF turn[t].resp.waitingForInput THEN @ ELSE FALSE,
          !.waitingForInput =
              IF turn[t].resp.error = "" /\ turn[t].resp.waitingForInput
              THEN TRUE
              ELSE IF NamesTimeout(turn[t].resp.error) /\ retry THEN FALSE
              ELSE @,
          !.request = IF NamesTimeout(turn[t].resp.error) /\ retry
                      THEN @ ELSE "none",
          !.retrying = NamesTimeout(turn[t].resp.error) /\ retry,
          !.handled = @ \cup {t}]
    /\ UNCHANGED <<now, alive, nextRun, activeSessions, session, sessionTimer,
                   containers, channel, run, turn, stdinWrites, tempFiles,
                   cleanupLog, everRegistered, pure>>

\* the rest of the retry of handleInput, executeCode({sessionId, input: ''}),
\* once its response is there
handleRetrySettles(t) ==
    /\ Sent(t)
    /\ client.retrying
    /\ turn[t].pc = "done"
    /\ client' = [client EXCEPT
          !.sessionId = IF turn[t].resp.error = ""
                           /\ turn[t].resp.waitingForInput
                        THEN @ ELSE Absent,
          !.error = turn[t].resp.error,
          !.isExecuting =
              IF turn[t].resp.error = "" /\ turn[t].resp.waitingForInput
              THEN @ ELSE FALSE,
          !.waitingForInput =
              IF turn[t].resp.error = "" /\ turn[t].resp.waitingForInput
              THEN TRUE ELSE @,
          !.request = "none",
          !.retrying = FALSE,
          !.handled = @ \cup {t}]
    /\ UNCHANGED <<now, alive, nextRun, activeSessions, session, sessionTimer,
                   containers, channel, run, turn, stdinWrites, tempFiles,
                   cleanupLog, everRegistered, pure>>

\* a faulty variant: the catch of handleInput also has the server drop the
\* session
clientTimeoutCancels(t) ==
    /\ Sent(t)
    /\ ~client.retrying
    /\ turn[t].pc # "done"
    /\ client' = [client EXCEPT !.sessionId = Absent,
                                !.error = "Client-side timeout",
                                !.isExecuting = FALSE,
                                !.request = "none",
                                !.handled = @ \cup {t}]
    /\ cleanupSession(client.sessionId, FALSE, "client")
    /\ sessionTimer' = TimersAfterCleanup({client.sessionId})
    /\ UNCHANGED <<now, alive, nextRun, session, channel, run, turn,
                   stdinWrites, tempFiles, everRegistered, pure>>

\* the 25000 ms timer of handleInput wins the race: the catch sets the
\* error and setSessionId(null); no request is sent
clientTimeout(t) ==
    /\ Sent(t)
    /\ ~client.retrying
    /\ turn[t].pc # "done"
    /\ client' = [client EXCEPT !.sessionId = Absent,
                                !.error = "Client-side timeout",
                                !.isExecuting = FALSE,
                                !.request = "none",
                                !.handled = @ \cup {t}]
    /\ UNCHANGED <<now, alive, nextRun, activeSessions, session, sessionTimer,
                   containers, channel, run, turn, stdinWrites, tempFiles,
                   cleanupLog, everRegistered, pure>>

\* handleCancelExecution: local state only, no request is sent
handleCancelExecution ==
    /\ client.sessionId # Absent
    /\ client' = [client EXCEPT !.sessionId = Absent,
                                !.isExecuting = FALSE,
                                !.waitingForInput = FALSE,
                                !.error = "Execution cancelled by user"]
    /\ UNCHANGED <<now, alive, nextRun, activeSessions, session, sessionTimer,
                   containers, channel, run, turn, stdinWrites, tempFiles,
                   cleanupLog, everRegistered, pure>>

\* every request, timer, stream event and settlement of the server
Next ==
    \/ \E t \in Turns, req \in Requests : ExecuteSessionNotFound(t, req)
    \/ \E t \in Turns, req \in Requests : ExecuteInvalidSession(t, req)
    \/ \E r \in Runs, req \in Requests : ExecuteInvalid(r, req)
    \/ \E r \in Runs, req \in Requests : ExecuteSaveFails(r, req)
    \/ \E r \in Runs, req \in Requests : ExecuteRun(r, req)
    \/ \E r \in Runs, ok \in BOOLEAN : CreateContainerSettles(r, ok)
    \/ \E r \in Runs, ok \in BOOLEAN : StartSettles(r, ok)
    \/ \E r \in Runs, ok \in BOOLEAN : AttachSettles(r, ok)
    \/ \E r \in Runs : RunResponds(r)
    \/ \E t \in Turns, req \in Requests : ExecuteInput(t, req)
    \/ \E r \in Runs, e \in Emissions : ChannelData(r, e.raw, e.type)
    \/ \E t \in Turns, late \in BOOLEAN : WaitQuietTimer(t, late)
    \/ \E t \in Turns : WaitProbeTimer(t)
    \/ \E t \in Turns, ok \in BOOLEAN : WaitProbeInspect(t, ok)
    \/ \E t \in Turns : WaitTimeout(t)
    \/ \E t \in Turns, ok \in BOOLEAN : WaitTimeoutInspect(t, ok)
    \/ \E r \in Runs : StreamError(r)
    \/ \E t \in Turns, ok, recent, threw \in BOOLEAN :
          LogsSettle(t, ok, recent, threw)
    \/ \E r \in Runs, code \in ExitCodes : ContainerExits(r, code)
    \/ \E r \in Runs, ok \in BOOLEAN : StopSettles(r, ok)
    \/ \E r \in Runs, ok \in BOOLEAN : RemoveSettles(r, ok)
    \/ Tick
    \/ \E r \in Runs, threw \in BOOLEAN : ExpiryTimer(r, threw)
    \/ \E throwers \in SUBSET Ids : Sweep(throwers)
    \/ \E throwers \in SUBSET Ids : Sigint(throwers)
    \/ \E r \in Runs : handleRunCodeSettles(r)
    \/ \E t \in Turns, retry \in BOOLEAN : handleInputSettles(t, retry)
    \/ \E t \in Turns : handleRetrySettles(t)
    \/ \E t \in Turns : clientTimeout(t)
    \/ handleCancelExecution
    \/ handleRunCode
    \/ handleInput

Spec == Init /\ [][Next]_vars

\* the first request without a sessionId
FirstRun == {1}

\* the first request with a sessionId
FirstTurn == {1}

\* the server with one request without a sessionId: the conversation of
\* one client with one program
NextSession ==
    \/ \E t \in FirstTurn, req \in Requests : ExecuteSessionNotFound(t, req)
    \/ \E t \in FirstTurn, req \in Requests : ExecuteInvalidSession(t, req)
    \/ \E r \in FirstRun, req \in Requests : ExecuteInvalid(r, req)
    \/ \E r \in FirstRun, req \in Requests : ExecuteSaveFails(r, req)
    \/ \E r \in FirstRun, req \in Requests : ExecuteRun(r, req)
    \/ \E r \in Runs, ok \in BOOLEAN : CreateContainerSettles(r, ok)
    \/ \E r \in Runs, ok \in BOOLEAN : StartSettles(r, ok)
    \/ \E r \in Runs, ok \in BOOLEAN : AttachSettles(r, ok)
    \/ \E r \in Runs : RunResponds(r)
    \/ \E t \in FirstTurn, req \in Requests : ExecuteInput(t, req)
    \/ \E r \in Runs, e \in Emissions : ChannelData(r, e.raw, e.type)
    \/ \E t \in Turns, late \in BOOLEAN : WaitQuietTimer(t, late)
    \/ \E t \in Turns : WaitProbeTimer(t)
    \/ \E t \in Turns, ok \in BOOLEAN : WaitProbeInspect(t, ok)
    \/ \E t \in Turns : WaitTimeout(t)
    \/ \E t \in Turns, ok \in BOOLEAN : WaitTimeoutInspect(t, ok)
    \/ \E r \in Runs : StreamError(r)
    \/ \E t \in Turns, ok, recent, threw \in BOOLEAN :
          LogsSettle(t, ok, recent, threw)
    \/ \E r \in Runs, code \in ExitCodes : ContainerExits(r, code)
    \/ \E r \in Runs, ok \in BOOLEAN : StopSettles(r, ok)
    \/ \E r \in Runs, ok \in BOOLEAN : RemoveSettles(r, ok)
    \/ Tick
    \/ \E r \in Runs, threw \in BOOLEAN : ExpiryTimer(r, threw)
    \/ \E throwers \in SUBSET Ids : Sweep(throwers)
    \/ \E throwers \in SUBSET Ids : Sigint(throwers)

SpecSession == Init /\ [][NextSession]_vars

\* the same server, whose event loop runs the timers of waitForOutput when
\* they are due and on which container.inspect() settles: weak fairness of
\* the 5000 ms timer, of the absolute timeout and of the callback of its
\* inspect(), the last two with their enabling condition written out
SpecWait ==
    /\ Init
    /\ [][NextSession]_vars
    /\ WF_vars(\E t \in Turns : WaitProbeTimer(t))
    /\ \A t \in Turns :
          \/ []<>~(alive /\ turn[t].timeout = "armed"
                         /\ turn[t].probe # "armed")
          \/ []<><<WaitTimeout(t)>>_vars
    /\ \A t \in Turns :
          \/ []<>~(alive /\ turn[t].timeout = "inspecting")
          \/ []<><<\E ok \in BOOLEAN : WaitTimeoutInspect(t, ok)>>_vars

\* the server with programs that print nothing and clients that send no
\* input: the life cycle of several sessions
NextRuns ==
    \/ \E t \in FirstTurn, req \in Requests : ExecuteSessionNotFound(t, req)
    \/ \E t \in FirstTurn, req \in Requests : ExecuteInvalidSession(t, req)
    \/ \E r \in Runs, req \in Requests : ExecuteInvalid(r, req)
    \/ \E r \in Runs, req \in Requests : ExecuteSaveFails(r, req)
    \/ \E r \in Runs, req \in Requests : ExecuteRun(r, req)
    \/ \E r \in Runs, ok \in BOOLEAN : CreateContainerSettles(r, ok)
    \/ \E r \in Runs, ok \in BOOLEAN : StartSettles(r, ok)
    \/ \E r \in Runs, ok \in BOOLEAN : AttachSettles(r, ok)
    \/ \E r \in Runs : RunResponds(r)
    \/ \E r \in Runs, code \in ExitCodes : ContainerExits(r, code)
    \/ \E r \in Runs, ok \in BOOLEAN : StopSettles(r, ok)
    \/ \E r \in Runs, ok \in BOOLEAN : RemoveSettles(r, ok)
    \/ Tick
    \/ \E r \in Runs, threw \in BOOLEAN : ExpiryTimer(r, threw)
    \/ \E throwers \in SUBSET Ids : Sweep(throwers)
    \/ \E throwers \in SUBSET Ids : Sigint(throwers)

SpecRuns == Init /\ [][NextRuns]_vars

\* the requests of clients that also send the empty line
Replies ==
    Requests \cup
    [sessionId : Learned, hasCode : {FALSE}, language : {"python"},
     input : {[defined |-> TRUE, text |-> <<>>]}]

\* the server with several sessions of silent programs and clients that
\* answer them
NextInputs ==
    \/ \E t \in Turns, req \in Replies : ExecuteSessionNotFound(t, req)
    \/ \E t \in Turns, req \in Replies : ExecuteInvalidSession(t, req)
    \/ \E r \in Runs, req \in Replies : ExecuteRun(r, req)
    \/ \E r \in Runs, ok \in BOOLEAN : CreateContainerSettles(r, ok)
    \/ \E r \in Runs, ok \in BOOLEAN : StartSettles(r, ok)
    \/ \E r \in Runs, ok \in BOOLEAN : AttachSettles(r, ok)
    \/ \E r \in Runs : RunResponds(r)
    \/ \E t \in Turns, req \in Replies : ExecuteInput(t, req)
    \/ \E t \in Turns : WaitProbeTimer(t)
    \/ \E t \in Turns, ok \in BOOLEAN : WaitProbeInspect(t, ok)
    \/ \E r \in Runs, code \in ExitCodes : ContainerExits(r, code)

SpecInputs == Init /\ [][NextInputs]_vars

\* the browser sends a request only when it awaits no response: every
\* earlier request is answered or given up
OneAtATime ==
    \A t \in Turns : turn[t].pc \in {"waiting", "logs"} => t \in client.handled

\* the server and the browser of one user whose program prints its prompt
\* within the first second and is silent afterwards
NextClient ==
    \/ \E t \in Turns, req \in Requests :
          OneAtATime /\ ExecuteSessionNotFound(t, req)
    \/ \E r \in FirstRun, req \in Requests : ExecuteRun(r, req)
    \/ \E r \in Runs, ok \in BOOLEAN : CreateContainerSettles(r, ok)
    \/ \E r \in Runs, ok \in BOOLEAN : StartSettles(r, ok)
    \/ \E r \in Runs, ok \in BOOLEAN : AttachSettles(r, ok)
    \/ \E r \in Runs : RunResponds(r)
    \/ \E t \in Turns, req \in Requests : OneAtATime /\ ExecuteInput(t, req)
    \/ \E r \in Runs :
          run[r].pc = "initialWait" /\ ChannelData(r, NamePrompt, "none")
    \/ \E t \in Turns : WaitProbeTimer(t)
    \/ \E t \in Turns, ok \in BOOLEAN : WaitProbeInspect(t, ok)
    \/ \E t \in Turns : WaitTimeout(t)
    \/ \E t \in Turns, ok \in BOOLEAN : WaitTimeoutInspect(t, ok)
    \/ \E r \in Runs : StreamError(r)
    \/ \E t \in Turns, ok, recent, threw \in BOOLEAN :
          LogsSettle(t, ok, recent, threw)
    \/ \E r \in Runs, code \in ExitCodes : ContainerExits(r, code)
    \/ \E r \in Runs, ok \in BOOLEAN : StopSettles(r, ok)
    \/ \E r \in Runs, ok \in BOOLEAN : RemoveSettles(r, ok)
    \/ Tick
    \/ \E r \in Runs, threw \in BOOLEAN : ExpiryTimer(r, threw)
    \/ \E throwers \in SUBSET Ids : Sweep(throwers)
    \/ \E r \in Runs : handleRunCodeSettles(r)
    \/ \E t \in Turns, retry \in BOOLEAN : handleInputSettles(t, retry)
    \/ \E t \in Turns : clientTimeout(t)
    \/ handleCancelExecution

SpecClient == Init /\ [][NextClient]_vars

\* the clock passes the lifetime of the sessions once every request without
\* a sessionId has been answered
LateTick == InFlight = {} /\ Tick

\* a new run goes on: the Docker daemon answers createContainer, start and
\* attach, the one-second timer fires
RunGoesOn ==
    \E r \in Runs, ok \in BOOLEAN :
        \/ CreateContainerSettles(r, ok)
        \/ StartSettles(r, ok)
        \/ AttachSettles(r, ok)
        \/ RunResponds(r)

\* the running server with sessions that start before the clock passes their
\* lifetime, silent programs and clients that may answer them
NextExpiry ==
    \/ \E r \in Runs, req \in Requests : now = 0 /\ ExecuteRun(r, req)
    \/ RunGoesOn
    \/ \E t \in FirstTurn, req \in Requests : ExecuteInput(t, req)
    \/ \E t \in Turns : WaitProbeTimer(t)
    \/ \E t \in Turns, ok \in BOOLEAN : WaitProbeInspect(t, ok)
    \/ \E t \in Turns : WaitTimeout(t)
    \/ \E t \in Turns, ok \in BOOLEAN : WaitTimeoutInspect(t, ok)
    \/ \E t \in Turns, ok, recent, threw \in BOOLEAN :
          LogsSettle(t, ok, recent, threw)
    \/ \E r \in Runs, code \in ExitCodes : ContainerExits(r, code)
    \/ \E r \in Runs, ok \in BOOLEAN : StopSettles(r, ok)
    \/ \E r \in Runs, ok \in BOOLEAN : RemoveSettles(r, ok)
    \/ LateTick
    \/ \E r \in Runs, threw \in BOOLEAN : ExpiryTimer(r, threw)
    \/ \E throwers \in SUBSET Ids : Sweep(throwers)

\* the Docker daemon answers, timers that are due fire, time passes
SpecExpiry ==
    /\ Init
    /\ [][NextExpiry]_vars
    /\ WF_vars(RunGoesOn)
    /\ WF_vars(LateTick)
    /\ WF_vars(\E r \in Runs, threw \in BOOLEAN : ExpiryTimer(r, threw))
    /\ WF_vars(\E r \in Runs, ok \in BOOLEAN : StopSettles(r, ok))

\* the steps of the server and of the handlers of the browser that need no
\* user: the request the browser has sent arrives (the request of
\* handleRunCode carries the code, the request of handleInput the sessionId
\* of the component), the run and the waits go on, the responses and the
\* 25000 ms timer are handled
EditorGoesOn ==
    \/ \E r \in FirstRun, req \in Requests :
          /\ client.request = "run"
          /\ req.sessionId = Absent
          /\ ExecuteRun(r, req)
    \/ \E t \in Turns, req \in Requests :
          /\ client.request = "input"
          /\ req.sessionId = client.sessionId
          /\ OneAtATime
          /\ ExecuteInput(t, req) \/ ExecuteSessionNotFound(t, req)
    \/ RunGoesOn
    \/ \E r \in Runs :
          run[r].pc = "initialWait" /\ ChannelData(r, NamePrompt, "none")
    \/ \E t \in Turns : WaitProbeTimer(t)
    \/ \E r \in Runs, ok \in BOOLEAN : StopSettles(r, ok)
    \/ \E r \in Runs, ok \in BOOLEAN : RemoveSettles(r, ok)
    \/ \E r \in Runs, threw \in BOOLEAN : ExpiryTimer(r, threw)
    \/ \E r \in Runs : handleRunCodeSettles(r)
    \/ \E t \in Turns, retry \in BOOLEAN : handleInputSettles(t, retry)
    \/ \E t \in Turns : clientTimeout(t)

\* the browser of one user and the server: the user runs the program once,
\* answers its prompts while the Terminal shows one, and may cancel; the
\* program prints its prompt within the first second and is silent then
NextEditor ==
    \/ nextRun \in FirstRun /\ client.request = "none" /\ handleRunCode
    \/ /\ client.waitingForInput
       /\ \E t \in Turns : turn[t].pc = "idle"
       /\ handleInput
    \/ handleCancelExecution
    \/ EditorGoesOn
    \/ \E t \in Turns, ok \in BOOLEAN : WaitProbeInspect(t, ok)
    \/ \E t \in Turns : WaitTimeout(t)
    \/ \E r \in Runs, code \in ExitCodes : ContainerExits(r, code)
    \/ Tick

\* the event loop runs every callback that is due: weak fairness of
\* EditorGoesOn, of the callback of the probe's inspect() and of the
\* absolute timeout, the last two with their enabling condition written out
SpecEditor ==
    /\ Init
    /\ [][NextEditor]_vars
    /\ WF_vars(EditorGoesOn)
    /\ \A t \in Turns :
          \/ []<>~(alive /\ turn[t].probe = "inspecting")
          \/ []<><<\E ok \in BOOLEAN : WaitProbeInspect(t, ok)>>_vars
    /\ \A t \in Turns :
          \/ []<>~(alive /\ turn[t].timeout = "armed"
                         /\ turn[t].probe # "armed")
          \/ []<><<WaitTimeout(t)>>_vars

(***************************************************************************)
(* The helper functions on their own: cleanDockerOutput, isWaitingForInput *)
(* and extractInputPrompt applied to a text.                               *)
(***************************************************************************)
\* the characters of the short texts
Alphabet == {CR, LF, NUL, TAB, "a", "?"}

\* the texts the functions are given: the short texts, one and two frames of
\* the multiplexed stream (the 8-byte header, then "hi\n"), a configuration
\* object inside the text of another, a prompt, the configuration literal
Texts ==
    LET ShortTexts == UNION {[1..n -> Alphabet] : n \in 0..MaxTextLen}
        FramedHi == <<SOH, NUL, NUL, NUL, NUL, NUL, NUL, FF>> \o Hi
        NestedConfig ==
            <<"{", QUOTE, "s", "t", "r">>
            \o <<"{">> \o ConfigPair(ConfigKeys[1], TrueText) \o <<"}">>
            \o <<"e", "a", "m", QUOTE, ":">> \o TrueText \o <<"}">>
    IN  ShortTexts \cup {FramedHi, FramedHi \o FramedHi, NestedConfig,
                         NamePrompt, DockerConfigJson \o Hi}

InitPure ==
    /\ InitServer
    /\ client = IdleClient
    /\ pure \in [text : Texts, cleaned : {<<>>}, verdicts : {<<>>}]

\* cleanDockerOutput is applied to the text, then to what it returned
Sanitize ==
    /\ Len(pure.cleaned) < MaxPasses
    /\ pure' = [pure EXCEPT
                   !.cleaned =
                       Append(@, cleanDockerOutput(IF @ = <<>> THEN pure.text
                                                   ELSE @[Len(@)]))]
    /\ UNCHANGED <<now, alive, nextRun, activeSessions, session, sessionTimer,
                   containers, channel, run, turn, stdinWrites, tempFiles,
                   cleanupLog, everRegistered, client>>

\* the text arrives in two chunks, is joined and is classified; called again,
\* with the text split elsewhere
Classify(k) ==
    /\ Len(pure.verdicts) < MaxCalls
    /\ k \in 0..Len(pure.text)
    /\ LET chunks == <<SubSeq(pure.text, 1, k),
                       SubSeq(pure.text, k + 1, Len(pure.text))>>
           output == Join(chunks)
       IN  pure' = [pure EXCEPT
                       !.verdicts =
                           Append(@, [waitingForInput |->
                                          isWaitingForInput(output),
                                      inputPrompt |->
                                          extractInputPrompt(output)])]
    /\ UNCHANGED <<now, alive, nextRun, activeSessions, session, sessionTimer,
                   containers, channel, run, turn, stdinWrites, tempFiles,
                   cleanupLog, everRegistered, client>>

NextPure ==
    \/ Sanitize
    \/ \E k \in 0..MaxTextLen : Classify(k)

SpecPure == InitPure /\ [][NextPure]_vars

(***************************************************************************)
(* Properties of the session registry and of the sandbox life cycle.       *)
(***************************************************************************)
\* the sanitized text of the first n chunks of container r that the data
\* listener of the run counts as stdout
RECURSIVE SanitizedDelivered(_, _)
SanitizedDelivered(r, n) ==
    IF n = 0 THEN <<>>
    ELSE SanitizedDelivered(r, n - 1)
         \o (IF channel[r][n].stderr THEN <<>>
             ELSE CleanChunk(channel[r][n].raw))

\* C1: the output history of every session (session.stdoutChunks joined) is
\* the concatenation of the sanitized chunks its channel delivered, in
\* arrival order, each chunk once: none dropped, none duplicated.
C1_HistoryIsDelivered ==
    \A r \in Runs :
        run[r].listening =>
            ExistingOutput(r) = SanitizedDelivered(r, Len(channel[r]))

\* this step takes up a request with a sessionId, in slot t
TurnTaken(t) == turn[t].pc = "idle" /\ turn'[t].pc # "idle"

\* this step takes up a request in slot r of the requests that reach the
\* new-run path
RunTaken(r) == run[r].pc = "none" /\ run'[r].pc # "none"

\* C2: a request whose sessionId is not in the registry is answered with the
\* session-not-found error, and handling it creates, starts and attaches no
\* sandbox, writes to no sandbox input, writes no file and leaves the
\* registry, the sessions and their timers unchanged, whatever code,
\* language and input it carries.
C2_UnknownSessionNoEffects ==
    [][/\ \A t \in Turns :
             TurnTaken(t) /\ turn'[t].sid \notin Registered =>
                 /\ turn'[t].pc = "done"
                 /\ turn'[t].resp = SessionNotFound
                 /\ UNCHANGED <<activeSessions, session, sessionTimer,
                                containers, channel, run, stdinWrites,
                                tempFiles, nextRun>>
       /\ \A r \in Runs :
             RunTaken(r) => run'[r].asked \in Registered \cup {Absent}]_vars

\* C2 witness: a request naming an unknown session was answered with the
\* not-found error while another session was registered.
C2_Witness ==
    \E t \in Turns :
        /\ turn[t].resp = SessionNotFound
        /\ turn[t].sid = BogusId
        /\ Registered # {}

\* the ids that were registered and have been removed
Removed == everRegistered \ Registered

\* C3: no session is resurrected: a removed id stays out of the registry, a
\* request naming a removed id is answered not-found, and a new run never
\* registers a session under an id that was registered before.
C3_NoResurrection ==
    [][/\ \A i \in Removed : i \notin Registered'
       /\ \A i \in Registered' \ Registered : i \notin everRegistered
       /\ \A t \in Turns :
             TurnTaken(t) /\ turn'[t].sid \in Removed =>
                 turn'[t].resp = SessionNotFound]_vars

\* C3 witness: a session was removed, a later run registered a session under
\* another id, and a request naming the removed id was answered not-found.
C3_Witness ==
    \E i \in Removed, j \in Registered, t \in Turns :
        /\ \E r \in Runs :
              /\ run[r].sid = i
              /\ session[activeSessions[j]].createdAt >
                     session[r].createdAt + SessionLifetime
        /\ turn[t].sid = i
        /\ turn[t].resp = SessionNotFound

\* this step invokes cleanupSession(i)
CleanupInvoked(i) == Len(cleanupLog'[i]) > Len(cleanupLog[i])

\* this step invokes cleanupSession(i) from `caller`
CleanupInvokedBy(i, caller) ==
    CleanupInvoked(i) /\ cleanupLog'[i][Len(cleanupLog'[i])] = caller

\* C4: teardown is idempotent: however often and by whichever callers
\* cleanupSession is invoked for a session, container.stop() is called
\* once on its container, and every invocation after the first changes
\* neither the container nor the registry.
C4_TeardownIdempotent ==
    [][\A r \in Runs :
          /\ containers'[r].stopCalls <= 1
          /\ run[r].sid \in everRegistered /\ CleanupInvoked(run[r].sid) =>
                /\ containers'[r].stopCalls = 1
                /\ cleanupLog[run[r].sid] # <<>> =>
                      /\ containers'[r] = containers[r]
                      /\ activeSessions' = activeSessions]_vars

\* C4 witness: cleanupSession ran twice for one session, first from the
\* expiry timer and then from the error path of an input turn.
C4_Witness ==
    \E i \in everRegistered : cleanupLog[i] = <<"timer", "input">>

\* C5, as stated: no session's entry is deleted from the registry while its
\* sandbox is still running.
C5_NoRunningAfterRemoval ==
    \A r \in Runs :
        run[r].sid \in Removed => containers[r].status # "running"

\* C5, amended: an entry is deleted from the registry only in a step that
\* has called container.stop() on its container; the stop is not awaited.
C5_TeardownInitiatedAtRemoval ==
    [][\A r \in Runs :
          run[r].sid \in Registered /\ run[r].sid \notin Registered' =>
              /\ containers'[r].stopCalls = containers[r].stopCalls + 1
              /\ containers'[r].teardown \in {"stopping", "fallback"}]_vars

\* C5 witness: the sweep removed a session and its container was stopped and
\* removed afterwards.
C5_Witness ==
    \E r \in Runs :
        /\ run[r].sid \in Removed
        /\ cleanupLog[run[r].sid] = <<"sweep">>
        /\ containers[r].status = "removed"

\* the registered sessions whose age exceeds the configured lifetime
Overdue ==
    {i \in Registered :
        now - session[activeSessions[i]].createdAt > SessionLifetime}

\* C6: the lifetime of a session is fixed at creation: no step, and no
\* input turn in particular, changes createdAt or the deadline of the
\* expiry timer of a registered session, the deadline is createdAt plus the
\* lifetime, and a sweep that removes a session leaves no session older
\* than the lifetime in the registry.
C6_FixedLifetime ==
    [][/\ \A i \in Registered \cap Registered' :
             LET r == activeSessions[i]
             IN  /\ activeSessions'[i] = r
                 /\ session'[r].createdAt = session[r].createdAt
                 /\ sessionTimer'[r].armed
                 /\ sessionTimer'[r].deadline =
                        session[r].createdAt + SessionLifetime
       /\ (\E i \in Ids : CleanupInvokedBy(i, "sweep")) => Overdue' = {}]_vars

\* C6 witness: a session that had an input turn was removed by the sweep
\* once its lifetime had passed.
C6_Witness ==
    \E t \in Turns :
        /\ turn[t].obj \in Runs
        /\ turn[t].sid \in Removed
        /\ cleanupLog[turn[t].sid] = <<"sweep">>
        /\ now > session[turn[t].obj].createdAt + SessionLifetime

\* the teardown of container r is in progress
TearingDown(r) ==
    containers[r].teardown \in {"stopping", "removing", "fallback"}

\* C7: a failure of container.stop() or container.remove() never blocks the
\* removal and never reaches the caller: every cleanupSession of a
\* registered session deletes its entry and clears its timer, also when
\* stop() throws; an input turn that fails answers with its own error; and
\* a stop or remove that fails later changes no request, no registry entry
\* and does not end the process.
C7_TeardownFailuresAbsorbed ==
    [][/\ \A i \in Registered :
             CleanupInvoked(i) =>
                 /\ i \notin Registered'
                 /\ ~sessionTimer'[activeSessions[i]].armed
       /\ \A t \in Turns :
             /\ turn[t].pc = "logs"
             /\ turn'[t] # turn[t]
             /\ CleanupInvokedBy(turn[t].sid, "input")
             =>  /\ turn'[t].pc = "done"
                 /\ turn'[t].resp = InputFailed(turn[t].error,
                                                turn[t].exitCode)
       /\ \A r \in Runs :
             /\ TearingDown(r)
             /\ containers'[r].teardown # containers[r].teardown
             /\ containers'[r].teardown \in {"fallback", "failed"}
             => UNCHANGED <<alive, activeSessions, sessionTimer, run, turn>>]_vars

\* C7 witness: the error path of an input turn removed a session whose
\* container could be neither stopped nor removed, and answered with the
\* error of the turn.
C7_Witness ==
    \E t \in Turns :
        /\ turn[t].obj \in Runs
        /\ cleanupLog[turn[t].sid] = <<"input">>
        /\ turn[t].sid \in Removed
        /\ containers[turn[t].obj].teardown = "failed"
        /\ turn[t].resp = InputFailed("Stream error", 0)

\* C8: after the error response of a new run whose container was created,
\* that container no longer exists or its stop has been called.
C8_NoOrphanAfterFailedRun ==
    \A r \in Runs :
        run[r].pc = "done" /\ run[r].resp = RunFailed =>
            \/ containers[r].status \in {"none", "removed"}
            \/ containers[r].teardown # "none"

\* this step ends the request of slot r in createContainer, start or attach
RunAborted(r) ==
    run[r].pc \in {"creating", "starting", "attaching"} /\ run'[r].pc = "done"

\* C9: a new run whose createContainer, start or attach fails answers with
\* an error, and registers no session: the registry after the request is
\* the registry before it, and its id is never registered.
C9_FailedRunRegistersNothing ==
    [][\A r \in Runs :
          /\ RunAborted(r) =>
                /\ run'[r].resp.error # ""
                /\ run'[r].resp.sessionId = Absent
                /\ activeSessions' = activeSessions
          /\ run[r].pc = "done" /\ run[r].resp.sessionId = Absent =>
                run[r].sid \notin Registered']_vars

\* C9 witness: a new run failed in attach while another session was
\* registered.
C9_Witness ==
    \E r \in Runs :
        /\ run[r].resp = RunFailed
        /\ containers[r].status = "running"
        /\ Registered # {}

\* C10: a run whose whole output is "hi\n", and whose program then exits
\* without reading input, is answered with output "hi\n" and
\* waitingForInput false.
C10_ScenarioA ==
    \A r \in Runs :
        /\ run[r].pc = "done"
        /\ run[r].resp.sessionId # Absent
        /\ channel[r] = <<[raw |-> Hi, stderr |-> FALSE]>>
        /\ stdinWrites[r] = <<>>
        /\ containers[r].status = "exited"
        /\ containers[r].exitCode = 0
        => /\ run[r].resp.output = Hi
           /\ ~run[r].resp.waitingForInput

(***************************************************************************)
(* Properties of the conversation: scenarios, timeouts, cancellation.      *)
(***************************************************************************)
\* this step sends the response of run r, whose program has printed
\* "Name? " and nothing else and is still running
RespondsToNamePrompt(r) ==
    /\ run[r].pc = "initialWait"
    /\ run'[r].pc = "done"
    /\ channel[r] = <<[raw |-> NamePrompt, stderr |-> FALSE]>>
    /\ containers[r].status = "running"

\* C11, as stated: the response of a run whose program printed "Name? " and
\* blocks on a read has output "Name? ", waitingForInput true, inputPrompt
\* "Name?" and the id of a registered session.
C11_ScenarioB ==
    [][\A r \in Runs :
          RespondsToNamePrompt(r) =>
              /\ run'[r].resp = Response(200, "", NamePrompt, TRUE,
                                         <<"N", "a", "m", "e", "?">>,
                                         run[r].sid, 0)
              /\ run[r].sid \in Registered']_vars

\* C11, amended: the same response carries the last line as printed,
\* "Name? " with its trailing space, as inputPrompt.
C11_ScenarioBVerbatim ==
    [][\A r \in Runs :
          RespondsToNamePrompt(r) =>
              /\ run'[r].resp = Response(200, "", NamePrompt, TRUE, NamePrompt,
                                         run[r].sid, 0)
              /\ run[r].sid \in Registered']_vars

\* C11 witness: a run was answered with output and prompt "Name? " while its
\* program was running and its session registered.
C11_Witness ==
    \E r \in Runs :
        /\ run[r].pc = "done"
        /\ run[r].resp.output = NamePrompt
        /\ run[r].resp.waitingForInput
        /\ run[r].resp.inputPrompt = NamePrompt
        /\ run[r].resp.sessionId \in Registered
        /\ containers[r].status = "running"

\* this step settles the inspect() that the absolute timeout of turn t
\* called, while the turn waits and its container is running
TimeoutFindsRunning(t) ==
    /\ turn[t].pc = "waiting"
    /\ turn[t].timeout = "inspecting"
    /\ turn'[t].timeout = "off"
    /\ containers[turn[t].obj].status = "running"

CancelsSession(i) ==
    /\ client.sessionId = i
    /\ client'.sessionId = Absent
    /\ client'.error = "Execution cancelled by user"

\* C13: a cancel of a session tears its sandbox down and removes it from
\* the registry at once, whatever the session is doing.
C13_CancelTearsDown ==
    [][\A i \in Registered :
          CancelsSession(i) =>
              /\ i \notin Registered'
              /\ containers'[activeSessions[i]].stopCalls =
                     containers[activeSessions[i]].stopCalls + 1]_vars

\* this step is the expiry of the browser's 25 s budget for the request of
\* turn t
ClientTimesOut(t) ==
    /\ t \notin client.handled
    /\ t \in client'.handled
    /\ client'.error = "Client-side timeout"

\* C14: the expiry of the client's own budget for an input request changes
\* nothing on the server: the registry, the sessions, their timers and
\* sandboxes and the request under way stay as they are; and a request that
\* names a session of the registry, after such a timeout as at any time, is
\* never answered not-found.
C14_ClientTimeoutKeepsSession ==
    [][/\ \A t \in Turns :
             ClientTimesOut(t) =>
                 UNCHANGED <<alive, activeSessions, session, sessionTimer,
                             containers, channel, run, turn, stdinWrites,
                             cleanupLog>>
       /\ \A t \in Turns :
             TurnTaken(t) /\ turn'[t].sid \in Registered =>
                 turn'[t].resp # SessionNotFound]_vars

\* C14 witness: the browser gave up on an input request, and a later request
\* with the same sessionId was answered with output.
C14_Witness ==
    \E t, u \in Turns :
        /\ t < u
        /\ client.handled = {t}
        /\ client.error = "Client-side timeout"
        /\ turn[u].sid = turn[t].sid
        /\ turn[u].pc = "done"
        /\ turn[u].resp.error = ""
        /\ turn[u].resp.output # <<>>

\* this step sends the response of run r
RunAnswered(r) == run[r].pc = "initialWait" /\ run'[r].pc = "done"

\* this step sends the response of turn t, which reached waitForOutput
TurnAnswered(t) == turn[t].pc \in {"waiting", "logs"} /\ turn'[t].pc = "done"

\* C15: once the program of a session has ended and the response that
\* reports it is sent, the sandbox is torn down and the session removed
\* from the registry, without waiting for the expiry of its lifetime.
C15_CompletionTearsDown ==
    [][/\ \A r \in Runs :
             RunAnswered(r) /\ containers[r].status = "exited" =>
                 /\ run[r].sid \notin Registered'
                 /\ containers'[r].teardown # "none"
       /\ \A t \in Turns :
             TurnAnswered(t) /\ containers[turn[t].obj].status = "exited" =>
                 /\ turn[t].sid \notin Registered'
                 /\ containers'[turn[t].obj].teardown # "none"]_vars

\* C16: a stream error during an input turn ends in an error response and
\* in the removal of the session.
C16_StreamErrorSurfaced ==
    [][\A t \in Turns :
          TurnAnswered(t) /\ turn[t].error = "Stream error" =>
              /\ turn'[t].resp.error # ""
              /\ turn[t].sid \notin Registered']_vars

\* the absolute timeout of waitForOutput has fired in turn t: its inspect()
\* is under way, or has failed and the logs fallback is under way
BudgetElapsed(t) ==
    \/ turn[t].timeout = "inspecting"
    \/ turn[t].pc = "logs" /\ NamesTimeout(turn[t].error)

\* C18: the timeout of waitForOutput is not fatal: no step of a turn whose
\* timeout has fired removes its session from the registry, so that a
\* later request with the same sessionId passes the lookup.
C18_ServerTimeoutNonFatal ==
    [][\A t \in Turns :
          /\ BudgetElapsed(t)
          /\ turn'[t] # turn[t]
          /\ turn[t].sid \in Registered
          => turn[t].sid \in Registered']_vars

\* a request without a sessionId whose code is missing or whose language is
\* not python is taken
ShapeErrorTaken(r) ==
    /\ RunTaken(r)
    /\ run'[r].asked = Absent
    /\ (~run'[r].hasCode \/ run'[r].language # "python")

\* C17: a new-run request with missing code or with a language other than
\* python is answered at once with status 400 and an error, and the step that
\* takes it changes neither the registry nor any session, timer, container,
\* stream, written input, temporary file or clean-up.
C17_ShapeErrorsFrame ==
    [][\A r \in Runs :
          ShapeErrorTaken(r) =>
              /\ run'[r].pc = "done"
              /\ run'[r].resp.status = 400
              /\ run'[r].resp.error # ""
              /\ run'[r].sid = Absent
              /\ UNCHANGED <<activeSessions, session, sessionTimer,
                             containers, channel, stdinWrites, tempFiles,
                             cleanupLog, everRegistered>>]_vars

\* a request without code, or in ruby, has been rejected while the session of
\* an earlier run is registered
C17_Witness ==
    /\ Registered # {}
    /\ \E r \in Runs :
          /\ run[r].resp \in {NoCodeProvided, UnsupportedLanguage}
          /\ run[r].hasCode => run[r].language = "ruby"
          /\ \E i \in Registered : i < r

\* the SIGINT handler runs
ShutsDown == alive /\ ~alive'

\* C19: the step of the SIGINT handler empties the registry, and for every
\* session that was registered cleanupSession has been called by the handler
\* and container.stop() has been called on its container.
C19_ShutdownRemovesAll ==
    [][ShutsDown =>
          /\ Registered' = {}
          /\ \A i \in Registered :
                /\ cleanupLog'[i] = Append(cleanupLog[i], "sigint")
                /\ containers'[activeSessions[i]].stopCalls =
                       containers[activeSessions[i]].stopCalls + 1
                /\ containers'[activeSessions[i]].teardown # "none"
                /\ ~sessionTimer'[activeSessions[i]].armed]_vars

\* the handler has run with two sessions registered
C19_Witness ==
    /\ ~alive
    /\ Registered = {}
    /\ \E i, j \in Ids :
          /\ i # j
          /\ cleanupLog[i] = <<"sigint">>
          /\ cleanupLog[j] = <<"sigint">>

\* a request with the sessionId of a registered session and an input is taken
InputTaken(t) == turn[t].pc = "idle" /\ turn'[t].pc = "waiting"

\* C20: every step that takes an input request for a registered session
\* appends to the writes of that session's stream one entry, the supplied text
\* followed by one newline, and changes the writes of no other stream; no
\* other step writes to any stream.
C20_InputWrittenOnce ==
    [][/\ \A t \in Turns :
             InputTaken(t) =>
                 /\ turn'[t].sid \in Registered
                 /\ stdinWrites' =
                        [stdinWrites EXCEPT ![activeSessions[turn'[t].sid]] =
                            Append(@, turn'[t].input \o <<LF>>)]
       /\ stdinWrites' # stdinWrites => \E t \in Turns : InputTaken(t)]_vars

\* two sessions are registered; one has been sent the text and then the empty
\* line, the other nothing
C20_Witness ==
    \E i, j \in Registered :
        /\ i # j
        /\ stdinWrites[activeSessions[i]] = <<Bob \o <<LF>>, <<LF>>>>
        /\ stdinWrites[activeSessions[j]] = <<>>
        /\ \A t \in Turns : turn[t].sid = i /\ turn[t].pc # "idle"

(***************************************************************************)
(* Properties of the helper functions.                                     *)
(***************************************************************************)
\* C21: cleanDockerOutput applied to what cleanDockerOutput returned returns
\* it unchanged, for every text.
C21_SanitizeIdempotent ==
    Len(pure.cleaned) = MaxPasses => pure.cleaned[2] = pure.cleaned[1]

\* C30: what cleanDockerOutput returns holds no control character other than
\* newline and tab, and no carriage return followed by a newline.
C30_SanitizedClean ==
    \A k \in 1..Len(pure.cleaned) :
        /\ Range(pure.cleaned[k]) \cap (CtrlChars \cup {CR}) = {}
        /\ ~Includes(pure.cleaned[k], <<CR, LF>>)

Live(r) == run[r].sid # Absent /\ run[r].sid \in Registered

\* container.remove() has been called on the container of run r
RemoveCalled(r) == containers[r].teardown \notin {"none", "stopping"}

\* C23: while the server runs, every registered session is eventually out of
\* the registry with container.remove() called on its container, whether or
\* not input requests are sent for it, provided time passes, due timers fire
\* and the Docker daemon answers container.stop().
C23_EventuallyRemoved ==
    \A r \in Runs : Live(r) ~> (~Live(r) /\ RemoveCalled(r))

\* the timer has removed a session that never got an input request, and the
\* removal of its container has been called after the stop
C23_Witness ==
    \E r \in Runs :
        /\ run[r].sid # Absent
        /\ cleanupLog[run[r].sid] = <<"timer">>
        /\ ~Live(r)
        /\ containers[r].teardown = "removing"
        /\ \A t \in Turns : turn[t].sid # run[r].sid

(***************************************************************************)
(* Properties of waitForOutput.                                            *)
(***************************************************************************)
\* this step is the callback of the absolute timeout of turn t, or the
\* callback of the inspect() it called, and it settles the wait
TimeoutSettles(t) ==
    /\ WaitTimeout(t) \/ WaitTimeoutInspect(t, TRUE)
    /\ turn[t].pc = "waiting"
    /\ turn'[t].timeout = "off"

\* the program of turn t has ended with a nonzero exit code
ExitedNonzero(t) ==
    /\ containers[turn[t].obj].status = "exited"
    /\ containers[turn[t].obj].exitCode # 0

\* C24: when the absolute timeout settles a wait during which no chunk
\* arrived and the program has ended with a nonzero exit code, waitForOutput
\* rejects with the exit code, and a turn whose wait rejected with an exit
\* code is answered with that error and that exit code.
C24_ExitCodeReported ==
    [][\A t \in Turns :
          /\ TimeoutSettles(t) /\ ~turn[t].dataReceived /\ ExitedNonzero(t) =>
                 /\ turn'[t].pc = "logs"
                 /\ turn'[t].error = "Program exited with code"
                 /\ turn'[t].exitCode = containers[turn[t].obj].exitCode
          /\ TurnAnswered(t) /\ turn[t].error = "Program exited with code" =>
                 /\ turn'[t].resp.error = "Program exited with code"
                 /\ turn'[t].resp.exitCode = turn[t].exitCode]_vars

\* this step resolves the waitForOutput of turn t
WaitResolves(t) == turn[t].pc = "waiting" /\ turn'[t].pc = "done"

\* C25: whenever waitForOutput resolves, what it resolves to is the text of
\* the chunks that arrived during this wait: the turn's response carries
\* that text, cleaned (or, when there is none, one of the status messages of
\* waitForOutput), and nothing of what the stream delivered before the turn.
C25_ResolvesNewText ==
    [][\A t \in Turns :
          WaitResolves(t) =>
              \/ turn'[t].resp.output =
                     InputResponse(turn[t].sid,
                                   WaitResult(turn'[t].output)).output
              \/ /\ turn'[t].output = <<>>
                 /\ turn'[t].resp.output \in
                        {StillRunningMessage, NoOutputMessage,
                         CompletedMessage, UnknownStatusMessage}]_vars

\* C26: once the waitForOutput of a turn has settled, neither of its
\* listeners is on the stream and none of its three timers is armed.
C26_SettledWaitLeavesNothing ==
    \A t \in Turns :
        turn[t].pc \in {"logs", "done"} =>
            /\ ~turn[t].subscribed
            /\ ~turn[t].quietArmed
            /\ turn[t].timeout # "armed"
            /\ turn[t].probe # "armed"

\* what the response of turn t carries for the text its wait accumulated
AccumulatedText(t) ==
    InputResponse(turn[t].sid, WaitResult(turn[t].output)).output

\* C27: when the absolute timeout settles a wait during which a
\* chunk arrived, the wait resolves: the turn is answered without an error
\* and its output holds the text the wait accumulated.
C27_TimeoutKeepsPartial ==
    [][\A t \in Turns :
          /\ WaitTimeout(t) \/ \E ok \in BOOLEAN : WaitTimeoutInspect(t, ok)
          /\ turn[t].pc = "waiting"
          /\ turn[t].dataReceived
          /\ turn'[t].timeout = "off"
          => /\ turn'[t].pc = "done"
             /\ turn'[t].resp.error = ""
             /\ Includes(turn'[t].resp.output, AccumulatedText(t))]_vars

\* C28: when the quiet timer of a wait fires, 500 ms after its last chunk,
\* the wait resolves with the text it accumulated, also when every chunk
\* cleaned to the empty string.
C28_SilenceResolves ==
    [][\A t \in Turns :
          (\E late \in BOOLEAN : WaitQuietTimer(t, late)) =>
              /\ turn'[t].pc = "done"
              /\ turn'[t].resp.error = ""
              /\ turn'[t].resp.output = AccumulatedText(t)]_vars

\* the wait of turn t has unsubscribed from its stream and set no quiet timer
Unsubscribed(t) == ~turn[t].subscribed /\ ~turn[t].quietArmed

\* C29: when a chunk makes the heuristic signal waiting on the accumulator
\* of a wait, the wait resolves in that step with the accumulator and
\* unsubscribes with no quiet timer armed; a wait that has unsubscribed
\* handles no later chunk and arms no quiet timer.
C29_HeuristicResolvesAtOnce ==
    [][\A t \in Turns :
          /\ /\ turn[t].pc = "waiting"
             /\ turn[t].subscribed
             /\ Len(channel'[turn[t].obj]) > Len(channel[turn[t].obj])
             /\ isWaitingForInput(turn'[t].output)
             => /\ turn'[t].pc = "done"
                /\ turn'[t].resp =
                       InputResponse(turn[t].sid, WaitResult(turn'[t].output))
                /\ ~turn'[t].subscribed
                /\ ~turn'[t].quietArmed
          /\ turn[t].pc # "idle" /\ Unsubscribed(t)
             => /\ turn'[t].output = turn[t].output
                /\ ~turn'[t].subscribed
                /\ ~turn'[t].quietArmed]_vars

\* a wait was resolved by the prompt chunk, and a later chunk of the same
\* stream left its accumulator alone
C29_Witness ==
    \E t \in Turns :
        /\ turn[t].pc \notin {"idle", "waiting"}
        /\ Unsubscribed(t)
        /\ turn[t].resp.error = ""
        /\ turn[t].output = cleanDockerOutput(CleanChunk(NamePrompt))
        /\ isWaitingForInput(turn[t].output)
        /\ Len(channel[turn[t].obj]) = 2
        /\ channel[turn[t].obj][1].raw = NamePrompt
        /\ channel[turn[t].obj][2].raw = Hi

(***************************************************************************)
(* Properties of the input-wait heuristic.                                 *)
(***************************************************************************)
\* the last non-empty line of the classified text
TextLastLine ==
    LastNonEmptyLine(Split(StripFrameHeader(ReplaceAll(pure.text, <<CR>>,
                                                       <<>>)), LF))

\* the line ends with ? or :, optionally followed by whitespace
EndsWithMark(line) ==
    TrimRight(line) # <<>> /\ TrimRight(line)[Len(TrimRight(line))] \in {"?", ":"}

\* C31: a text is classified as its last non-empty line alone is: what
\* precedes the line and the blank lines after it do not change the result.
C31_LastLineDecides ==
    \A k \in 1..Len(pure.verdicts) :
        TextLastLine # <<>> =>
            pure.verdicts[k].waitingForInput = isWaitingForInput(TextLastLine)

\* C32: a text whose last non-empty line ends with ? or :, optionally
\* followed by whitespace, is classified as waiting.
C32_TrailingMarkSuffices ==
    \A k \in 1..Len(pure.verdicts) :
        EndsWithMark(TextLastLine) => pure.verdicts[k].waitingForInput

\* C33: a text whose last non-empty line has no trailing ? or :, no trailing
\* prompt character and no keyword is classified as not waiting.
C33_NegativeDefault ==
    \A k \in 1..Len(pure.verdicts) :
        /\ ~EndsWithMark(TextLastLine)
        /\ ~EndsWithPromptChar(TextLastLine)
        /\ ~HasInputKeyword(TextLastLine)
        => ~pure.verdicts[k].waitingForInput

(***************************************************************************)
(* Properties of the output history and of overlapping turns.              *)
(***************************************************************************)
\* C34: in every step the chunks stored for a session are kept, in their
\* order, and new ones are only added after them.
C34_HistoryAppendOnly ==
    [][\A r \in Runs :
          /\ Len(session[r].stdoutChunks) <= Len(session'[r].stdoutChunks)
          /\ SubSeq(session'[r].stdoutChunks, 1, Len(session[r].stdoutChunks))
                = session[r].stdoutChunks]_vars

\* a session whose history holds a chunk of the run and a chunk of an input
\* turn, after the wait of that turn has settled
C34_Witness ==
    \E t \in Turns :
        /\ turn[t].pc \notin {"idle", "waiting"}
        /\ turn[t].dataReceived
        /\ Len(session[turn[t].obj].stdoutChunks) >= 3
        /\ session[turn[t].obj].stdoutChunks[1] # <<>>

\* C35: at most one waitForOutput is subscribed to the stream of a session.
C35_OneWaiterPerSession ==
    \A r \in Runs : Cardinality(Waiters(r)) <= 1

\* C36: a response that says waitingForInput and names a session is produced
\* while that session is in the registry.
C36_WaitingSessionRegistered ==
    [][/\ \A t \in Turns :
             /\ turn[t].pc # "done" /\ turn'[t].pc = "done"
             /\ turn'[t].resp.waitingForInput
             /\ turn'[t].resp.sessionId # Absent
             => turn'[t].resp.sessionId \in DOMAIN activeSessions'
       /\ \A r \in Runs :
             /\ run[r].resp = NoResponse /\ run'[r].resp # NoResponse
             /\ run'[r].resp.waitingForInput
             /\ run'[r].resp.sessionId # Absent
             => run'[r].resp.sessionId \in DOMAIN activeSessions']_vars

(***************************************************************************)
(* Properties of the browser.                                              *)
(***************************************************************************)
\* C37: whenever the component is executing without a prompt, it later
\* stops executing or shows a prompt.
C37_NeverStuckExecuting ==
    (client.isExecuting /\ ~client.waitingForInput)
        ~> (~client.isExecuting \/ client.waitingForInput)

(***************************************************************************)
(* Termination of waitForOutput.                                           *)
(***************************************************************************)
\* C38: while the server runs, every waitForOutput that is pending is
\* eventually resolved or rejected.
C38_WaitSettles ==
    \A t \in Turns : (turn[t].pc = "waiting") ~> (turn[t].pc # "waiting" \/ ~alive)

\* a wait that was settled by the callback of the inspect() of its timeout
C38_Witness ==
    \E t \in Turns :
        /\ turn[t].pc = "done"
        /\ ~turn[t].dataReceived
        /\ turn[t].timeout = "off"
        /\ turn[t].resp.output = StillRunningMessage

(***************************************************************************)
(* The temporary source files.                                             *)
(***************************************************************************)
\* C39: once the session of a run has left the registry and its container
\* is removed, the temporary file written for that run is deleted.
C39_TempFileDeleted ==
    \A r \in Runs :
        /\ run[r].sid \in everRegistered \ DOMAIN activeSessions
        /\ containers[r].status = "removed"
        => r \notin tempFiles
====
